---- MODULE Spec2Model ----
(***************************************************************************)
(* typed-local-storage: the typed storage factory createTypedStorage over  *)
(* a StorageAdapter, with the JavaScript values, JSON text and zod schemas *)
(* its accessors handle, the logger, and the older localStorage API        *)
(* (getLocalStorageItem, defineGetterAndSetter).                           *)
(*                                                                         *)
(* A JavaScript value is a tagged tuple; a string is a sequence of         *)
(* one-character strings, so that JSON.stringify, JSON.parse and String()  *)
(* are computed on the text itself.                                        *)
(***************************************************************************)
EXTENDS Integers, Sequences, FiniteSets, TLC

VARIABLES store, adapter, storage, pending, last, prev, environment, output

vars == <<store, adapter, storage, pending, last, prev, environment, output>>

----------------------------------------------------------------------------
(* JavaScript values *)

Undefined == <<"undefined">>
Null == <<"null">>
Bool(b) == <<"boolean", b>>
Num(n) == <<"number", n>>
Str(s) == <<"string", s>>
\* An object: its own properties in insertion order, as <<key, value>> pairs.
Obj(props) == <<"object", props>>

TypeOf(v) == v[1]

IsNullish(v) == v = Undefined \/ v = Null

\* JavaScript truthiness of the values an adapter's getItem yields.
Truthy(v) ==
    CASE TypeOf(v) = "undefined" -> FALSE
      [] TypeOf(v) = "null" -> FALSE
      [] TypeOf(v) = "boolean" -> v[2]
      [] TypeOf(v) = "number" -> v[2] # 0
      [] TypeOf(v) = "string" -> v[2] # <<>>
      [] OTHER -> TRUE

HasKey(props, k) == \E i \in 1..Len(props) : props[i][1] = k

\* The value of property k (the last pair wins, as in an object literal).
PropOf(props, k) ==
    IF HasKey(props, k)
    THEN LET i == CHOOSE j \in 1..Len(props) :
                     /\ props[j][1] = k
                     /\ \A m \in (j+1)..Len(props) : props[m][1] # k
         IN props[i][2]
    ELSE Undefined

KeysOf(props) == {props[i][1] : i \in 1..Len(props)}

\* Deep equality of two values (vitest's toEqual): property order is ignored,
\* a property holding undefined counts as absent.
RECURSIVE DeepEqual(_, _)
DeepEqual(a, b) ==
    IF TypeOf(a) # TypeOf(b) THEN FALSE
    ELSE IF TypeOf(a) # "object" THEN a = b
    ELSE \A k \in KeysOf(a[2]) \cup KeysOf(b[2]) :
             DeepEqual(PropOf(a[2], k), PropOf(b[2], k))

----------------------------------------------------------------------------
(* Text *)

Digit == <<"0", "1", "2", "3", "4", "5", "6", "7", "8", "9">>
DigitChars == {Digit[i] : i \in 1..10}
DigitValue(c) == (CHOOSE i \in 1..10 : Digit[i] = c) - 1

TextNull == <<"n", "u", "l", "l">>
TextTrue == <<"t", "r", "u", "e">>
TextFalse == <<"f", "a", "l", "s", "e">>
TextUndefined == <<"u", "n", "d", "e", "f", "i", "n", "e", "d">>
TextObjectObject ==
    <<"[", "o", "b", "j", "e", "c", "t", " ", "O", "b", "j", "e", "c", "t", "]">>

RECURSIVE NatToText(_)
NatToText(n) ==
    IF n < 10 THEN <<Digit[n + 1]>>
    ELSE NatToText(n \div 10) \o <<Digit[(n % 10) + 1]>>

\* Number.prototype.toString of an integer.
IntToText(n) == IF n < 0 THEN <<"-">> \o NatToText(-n) ELSE NatToText(n)

\* String(value): the plain textual form.
ToStringJS(v) ==
    CASE TypeOf(v) = "undefined" -> TextUndefined
      [] TypeOf(v) = "null" -> TextNull
      [] TypeOf(v) = "boolean" -> IF v[2] THEN TextTrue ELSE TextFalse
      [] TypeOf(v) = "number" -> IntToText(v[2])
      [] TypeOf(v) = "string" -> v[2]
      [] OTHER -> TextObjectObject

\* The quoted form of a string in JSON: " and \ are escaped.
RECURSIVE Quote(_)
Quote(s) ==
    IF s = <<>> THEN <<>>
    ELSE (IF Head(s) \in {"\"", "\\"} THEN <<"\\", Head(s)>> ELSE <<Head(s)>>)
         \o Quote(Tail(s))

\* JSON.stringify(value): Str(text), or Undefined for undefined. A property
\* holding undefined is left out.
RECURSIVE JSONStringify(_)
RECURSIVE StringifyProps(_, _)
StringifyProps(props, first) ==
    IF props = <<>> THEN <<>>
    ELSE LET p == Head(props)
             inner == JSONStringify(p[2])
         IN IF inner = Undefined THEN StringifyProps(Tail(props), first)
            ELSE (IF first THEN <<>> ELSE <<",">>)
                 \o <<"\"">> \o Quote(p[1]) \o <<"\"", ":">> \o inner[2]
                 \o StringifyProps(Tail(props), FALSE)

JSONStringify(v) ==
    CASE TypeOf(v) = "undefined" -> Undefined
      [] TypeOf(v) = "null" -> Str(TextNull)
      [] TypeOf(v) = "boolean" -> Str(IF v[2] THEN TextTrue ELSE TextFalse)
      [] TypeOf(v) = "number" -> Str(IntToText(v[2]))
      [] TypeOf(v) = "string" -> Str(<<"\"">> \o Quote(v[2]) \o <<"\"">>)
      [] OTHER -> Str(<<"{">> \o StringifyProps(v[2], TRUE) \o <<"}">>)

----------------------------------------------------------------------------
(* JSON.parse over the grammar of the texts handled here: strings with the *)
(* escapes \" and \\, integers, null, true, false and objects, with spaces *)
(* as whitespace. A parse result is [ok, v, i]: i is the position after    *)
(* the value read; ok = FALSE stands for the SyntaxError JSON.parse throws.*)

ParseFail == [ok |-> FALSE, v |-> Undefined, i |-> 0]
ParseOk(v, i) == [ok |-> TRUE, v |-> v, i |-> i]

RECURSIVE SkipWs(_, _)
SkipWs(s, i) == IF i <= Len(s) /\ s[i] = " " THEN SkipWs(s, i + 1) ELSE i

MatchAt(s, i, lit) ==
    /\ i + Len(lit) - 1 <= Len(s)
    /\ SubSeq(s, i, i + Len(lit) - 1) = lit

\* The characters of a string literal, from position i (after the opening
\* quote) to the closing quote.
RECURSIVE ParseStringBody(_, _, _)
ParseStringBody(s, i, acc) ==
    IF i > Len(s) THEN ParseFail
    ELSE IF s[i] = "\"" THEN ParseOk(Str(acc), i + 1)
    ELSE IF s[i] = "\\"
         THEN IF i + 1 <= Len(s) /\ s[i + 1] \in {"\"", "\\"}
              THEN ParseStringBody(s, i + 2, Append(acc, s[i + 1]))
              ELSE ParseFail
    ELSE ParseStringBody(s, i + 1, Append(acc, s[i]))

RECURSIVE ParseDigits(_, _, _)
ParseDigits(s, i, n) ==
    IF i <= Len(s) /\ s[i] \in DigitChars
    THEN ParseDigits(s, i + 1, 10 * n + DigitValue(s[i]))
    ELSE ParseOk(Num(n), i)

\* An integer: an optional minus sign, then 0 or a digit sequence that does
\* not start with 0.
ParseNumber(s, i) ==
    LET neg == s[i] = "-"
        j == IF neg THEN i + 1 ELSE i
    IN IF j > Len(s) \/ s[j] \notin DigitChars THEN ParseFail
       ELSE IF s[j] = "0" THEN ParseOk(Num(0), j + 1)
       ELSE LET r == ParseDigits(s, j, 0)
            IN IF neg THEN ParseOk(Num(-(r.v[2])), r.i) ELSE r

\* Assigning property k of an object under construction: a repeated key
\* keeps its place and takes the new value.
SetProp(props, k, v) ==
    IF HasKey(props, k)
    THEN [j \in 1..Len(props) |->
              IF props[j][1] = k THEN <<k, v>> ELSE props[j]]
    ELSE Append(props, <<k, v>>)

RECURSIVE ParseValue(_, _)
RECURSIVE ParseMembers(_, _, _)
ParseMembers(s, i, props) ==
    LET j == SkipWs(s, i)
    IN IF j > Len(s) \/ s[j] # "\"" THEN ParseFail
       ELSE LET k == ParseStringBody(s, j + 1, <<>>)
            IN IF ~k.ok THEN ParseFail
               ELSE LET c == SkipWs(s, k.i)
                    IN IF c > Len(s) \/ s[c] # ":" THEN ParseFail
                       ELSE LET val == ParseValue(s, c + 1)
                            IN IF ~val.ok THEN ParseFail
                               ELSE LET d == SkipWs(s, val.i)
                                        next == SetProp(props, k.v[2], val.v)
                                    IN IF d > Len(s) THEN ParseFail
                                       ELSE IF s[d] = ","
                                            THEN ParseMembers(s, d + 1, next)
                                       ELSE IF s[d] = "}"
                                            THEN ParseOk(Obj(next), d + 1)
                                       ELSE ParseFail

ParseValue(s, i) ==
    LET j == SkipWs(s, i)
    IN IF j > Len(s) THEN ParseFail
       ELSE IF s[j] = "\"" THEN ParseStringBody(s, j + 1, <<>>)
       ELSE IF s[j] = "{"
            THEN LET m == SkipWs(s, j + 1)
                 IN IF m <= Len(s) /\ s[m] = "}" THEN ParseOk(Obj(<<>>), m + 1)
                    ELSE ParseMembers(s, j + 1, <<>>)
       ELSE IF s[j] \in DigitChars \cup {"-"} THEN ParseNumber(s, j)
       ELSE IF MatchAt(s, j, TextNull) THEN ParseOk(Null, j + 4)
       ELSE IF MatchAt(s, j, TextTrue) THEN ParseOk(Bool(TRUE), j + 4)
       ELSE IF MatchAt(s, j, TextFalse) THEN ParseOk(Bool(FALSE), j + 5)
       ELSE ParseFail

\* JSON.parse(text): [ok |-> TRUE, v |-> value], or ok = FALSE when it throws.
JSONParse(s) ==
    LET r == ParseValue(s, 1)
    IN IF r.ok /\ SkipWs(s, r.i) > Len(s)
       THEN [ok |-> TRUE, v |-> r.v]
       ELSE [ok |-> FALSE, v |-> Undefined]

----------------------------------------------------------------------------
(* The zod schemas of the repository's tests and examples.  A safeParse    *)
(* result is [success, data].                                              *)

StringSchema == "z.string()"
NumberSchema == "z.number()"
ObjectSchema == "z.object({name: z.string(), age: z.number()})"
NullableSchema == "z.string().nullable()"

Schemas == {StringSchema, NumberSchema, ObjectSchema, NullableSchema}

KeyName == <<"n", "a", "m", "e">>
KeyAge == <<"a", "g", "e">>

ParseFailure == [success |-> FALSE, data |-> Undefined]
ParseSuccess(v) == [success |-> TRUE, data |-> v]

\* schema.safeParse(input). An object schema strips the keys it does not
\* declare and yields its own keys in the order of its shape.
SafeParse(schema, input) ==
    CASE schema = StringSchema ->
            IF TypeOf(input) = "string" THEN ParseSuccess(input) ELSE ParseFailure
      [] schema = NumberSchema ->
            IF TypeOf(input) = "number" THEN ParseSuccess(input) ELSE ParseFailure
      [] schema = NullableSchema ->
            IF TypeOf(input) \in {"string", "null"}
            THEN ParseSuccess(input) ELSE ParseFailure
      [] schema = ObjectSchema ->
            IF /\ TypeOf(input) = "object"
               /\ TypeOf(PropOf(input[2], KeyName)) = "string"
               /\ TypeOf(PropOf(input[2], KeyAge)) = "number"
            THEN ParseSuccess(Obj(<<<<KeyName, PropOf(input[2], KeyName)>>,
                                    <<KeyAge, PropOf(input[2], KeyAge)>>>>))
            ELSE ParseFailure

----------------------------------------------------------------------------
(* The values, texts and configurations the model draws its inputs from.   *)

TextA == <<"a">>
TextThirty == <<"3", "0">>
TextJo == <<"J", "o">>
TextEn == <<"e", "n">>
KeyExtra == <<"x">>

John == Obj(<<<<KeyName, Str(TextJo)>>, <<KeyAge, Num(30)>>>>)
\* The same user with its keys in the other order and a key the schema
\* does not declare.
JohnExtra ==
    Obj(<<<<KeyAge, Num(30)>>, <<KeyName, Str(TextJo)>>, <<KeyExtra, Bool(TRUE)>>>>)
\* { name: 123, age: "invalid" } of the tests, shortened.
BadUser == Obj(<<<<KeyName, Num(1)>>, <<KeyAge, Str(TextA)>>>>)
EmptyUser == Obj(<<<<KeyName, Str(<<>>)>>, <<KeyAge, Num(0)>>>>)

\* The values handed to set().
SetValues == {Str(<<>>), Str(TextA), Num(30), Null, John, JohnExtra, BadUser}

\* The texts written through the adapter directly: the empty text, a text
\* that is no JSON, a JSON number, and a JSON object of the wrong shape.
TextBadShape == JSONStringify(Obj(<<<<KeyName, Num(1)>>>>))[2]
RawTexts == {<<>>, TextA, TextThirty, TextBadShape}

\* The configured default of each schema, and the default a get() call
\* may pass instead.
DefaultOf(schema) ==
    CASE schema = StringSchema -> Str(TextEn)
      [] schema = NumberSchema -> Num(0)
      [] schema = NullableSchema -> Str(TextEn)
      [] schema = ObjectSchema -> EmptyUser

OverrideOf(schema) ==
    CASE schema = StringSchema -> Str(TextA)
      [] schema = NumberSchema -> Num(30)
      [] schema = NullableSchema -> Str(TextA)
      [] schema = ObjectSchema -> John

GetOptions(schema) == {Undefined, Null, OverrideOf(schema)}

StorageKeys == {"user", "user-data", "token"}

\* A configuration entry { key?, schema, defaultValue, isJson? }.
Entry(schema, json) ==
    IF json THEN [schema |-> schema, defaultValue |-> DefaultOf(schema), isJson |-> TRUE]
    ELSE [schema |-> schema, defaultValue |-> DefaultOf(schema)]

WithKey(entry, k) == [f \in DOMAIN entry \cup {"key"} |->
                        IF f = "key" THEN k ELSE entry[f]]

EmptyConfig == [k \in {} |-> Entry(StringSchema, FALSE)]

\* One entry "user" per schema and encoding, without an explicit key;
\* the configurations of the tests with an explicit key; the two-entry
\* configuration of the tests; the empty configuration.
Configs ==
    {[k \in {"user"} |-> Entry(s, j)] : s \in Schemas, j \in BOOLEAN}
    \cup {[k \in {"user"} |-> WithKey(Entry(ObjectSchema, TRUE), "user-data")],
          [k \in {"user"} |-> WithKey(Entry(StringSchema, FALSE), "user-data")],
          [k \in {"user", "token"} |->
              IF k = "user" THEN WithKey(Entry(ObjectSchema, TRUE), "user")
              ELSE Entry(StringSchema, FALSE)],
          EmptyConfig}

----------------------------------------------------------------------------
(* The storage adapters.  store is the adapter's Map: a text (or nothing)  *)
(* under each key.                                                         *)

\* An adapter is synchronous or asynchronous (its methods return promises),
\* and works or is faulty: every method of a faulty adapter throws, or
\* returns a promise that is rejected.
MemoryStorageAdapter == [async |-> FALSE, faulty |-> FALSE]
CustomAsyncStorageAdapter == [async |-> TRUE, faulty |-> FALSE]
ThrowingAdapter == [async |-> FALSE, faulty |-> TRUE]
FaultyAdapter == [async |-> TRUE, faulty |-> TRUE]
Adapters == {MemoryStorageAdapter, CustomAsyncStorageAdapter,
             ThrowingAdapter, FaultyAdapter}

\* Whether the adapter's methods return promises.
IsAsync(a) == a.async

\* getItem: this.storage.get(key) ?? null
MapGet(m, key) == IF IsNullish(m[key]) THEN Null ELSE m[key]
\* setItem: this.storage.set(key, value)
MapSet(m, key, value) == [m EXCEPT ![key] = value]
\* removeItem: this.storage.delete(key)
MapDelete(m, key) == [m EXCEPT ![key] = Undefined]
\* clear: this.storage.clear()
MapClear(m) == [k \in DOMAIN m |-> Undefined]

----------------------------------------------------------------------------
(* logger.  environment is what the logger looks at on each call:          *)
(* process.env.NODE_ENV and the console object (process itself is taken    *)
(* to exist, as under Node and under a bundler that defines it); output is *)
(* what was written to the console.                                        *)

\* The values of process.env.NODE_ENV; NodeEnvUnset when it is not set.
NodeEnvUnset == ""
NodeEnvs == {"development", "production", "test", NodeEnvUnset}

\* The console: not defined at all, or defined with some of its methods.
NoConsole == [defined |-> FALSE, methods |-> {}]
Consoles == {NoConsole} \cup
            {[defined |-> TRUE, methods |-> ms] : ms \in SUBSET {"warn", "error"}}

Environments == [NODE_ENV : NodeEnvs, console : Consoles]

\* The environment of the test runs.
TestEnvironment ==
    [NODE_ENV |-> "test",
     console |-> [defined |-> TRUE, methods |-> {"warn", "error"}]]

\* A constant message or key as a string value, kept in one piece: no
\* operation looks inside it.
Literal(text) == Str(<<text>>)

\* The Error object an adapter threw.
ErrorValue == <<"error">>

\* One call of a console method with its arguments.
LogEntry(method, args) == [method |-> method, args |-> args]

\* A faulty variant of LoggerWarn: NODE_ENV is not looked at.
LoggerWarnUngated(env, out, args) ==
    IF env.console.defined /\ "warn" \in env.console.methods
    THEN Append(out, LogEntry("warn", args))
    ELSE out

\* logger.warn(...args): the console output afterwards.
LoggerWarn(env, out, args) ==
    IF /\ env.NODE_ENV = "development"
       /\ env.console.defined
       /\ "warn" \in env.console.methods
    THEN Append(out, LogEntry("warn", args))
    ELSE out

\* logger.error(...args): the console output afterwards.
LoggerError(env, out, args) ==
    IF /\ env.NODE_ENV = "development"
       /\ env.console.defined
       /\ "error" \in env.console.methods
    THEN Append(out, LogEntry("error", args))
    ELSE out

\* logger.warn("Invalid value for key:", key, "Value:", value)
InvalidValueArgs(key, value) ==
    <<Literal("Invalid value for key:"), Literal(key), Literal("Value:"), value>>

\* logger.error("Error getting storage item:", error), and those of set and
\* remove.
ErrorArgs(op) ==
    <<Literal(CASE op = "get" -> "Error getting storage item:"
                [] op = "set" -> "Error setting storage item:"
                [] op = "remove" -> "Error removing storage item:"),
      ErrorValue>>

----------------------------------------------------------------------------
(* createTypedStorage                                                      *)

\* A faulty variant of Bind: the entry's own key is ignored.
BindLogicalKey(storageKey, itemConfig) ==
    [key |-> storageKey,
     schema |-> itemConfig.schema,
     defaultValue |-> itemConfig.defaultValue,
     isJson |-> IF "isJson" \in DOMAIN itemConfig THEN itemConfig.isJson ELSE FALSE]

\* The variables an accessor triple closes over: key = storageKey and
\* isJson = false unless the entry gives them.
Bind(storageKey, itemConfig) ==
    [key |-> IF "key" \in DOMAIN itemConfig THEN itemConfig.key ELSE storageKey,
     schema |-> itemConfig.schema,
     defaultValue |-> itemConfig.defaultValue,
     isJson |-> IF "isJson" \in DOMAIN itemConfig THEN itemConfig.isJson ELSE FALSE]

\* A faulty variant of CreateTypedStorage: every triple closes over the
\* variables of one and the same entry.
CreateTypedStorageOneEntry(config) ==
    [storageKey \in DOMAIN config |->
        LET k == CHOOSE x \in DOMAIN config : TRUE
        IN Bind(k, config[k])]

CreateTypedStorage(config) ==
    [storageKey \in DOMAIN config |-> Bind(storageKey, config[storageKey])]

\* A faulty variant of FinalDefaultValue: the default given with the call is
\* never looked at.
FinalDefaultValueConfigured(optDefault, defaultValue) == defaultValue

\* A faulty variant of FinalDefaultValue: a default given with a call is
\* kept for the calls that follow.
FinalDefaultValueSticky(optDefault, defaultValue) ==
    IF ~IsNullish(optDefault) THEN optDefault
    ELSE IF last.op = "get" /\ ~IsNullish(last.opt) THEN last.opt
    ELSE defaultValue

\* A faulty variant of FinalDefaultValue: only an undefined override falls
\* back on the configured default (=== undefined in place of ??).
FinalDefaultValueUndefinedOnly(optDefault, defaultValue) ==
    IF optDefault = Undefined THEN defaultValue ELSE optDefault

\* options?.defaultValue ?? defaultValue
FinalDefaultValue(optDefault, defaultValue) ==
    IF IsNullish(optDefault) THEN defaultValue ELSE optDefault

\* A faulty variant of DecodeSync: the result of safeParse is used without
\* a look at its success flag.
DecodeSyncUnchecked(c, item, finalDefaultValue) ==
    IF ~Truthy(item) THEN finalDefaultValue
    ELSE IF c.isJson
         THEN LET json == JSONParse(item[2])
              IN IF ~json.ok THEN finalDefaultValue
                 ELSE SafeParse(c.schema, json.v).data
    ELSE SafeParse(c.schema, item).data

\* A faulty variant of DecodeSync: a plain text the schema rejects is read
\* as JSON and offered to the schema again.
DecodeSyncCoercing(c, item, finalDefaultValue) ==
    IF ~Truthy(item) THEN finalDefaultValue
    ELSE LET json == JSONParse(item[2])
             asText == SafeParse(c.schema, item)
             asJson == IF json.ok THEN SafeParse(c.schema, json.v) ELSE ParseFailure
         IN IF c.isJson
            THEN IF asJson.success THEN asJson.data ELSE finalDefaultValue
            ELSE IF asText.success THEN asText.data
            ELSE IF asJson.success THEN asJson.data
            ELSE finalDefaultValue

\* A faulty variant of DecodeSync: only a missing item counts as absent, an
\* empty one is decoded.
DecodeSyncNullOnly(c, item, finalDefaultValue) ==
    IF item = Null THEN finalDefaultValue
    ELSE IF c.isJson
         THEN LET json == JSONParse(item[2])
              IN IF ~json.ok THEN finalDefaultValue
                 ELSE LET parsedItem == SafeParse(c.schema, json.v)
                      IN IF parsedItem.success THEN parsedItem.data
                         ELSE finalDefaultValue
    ELSE LET parsedItem == SafeParse(c.schema, item)
         IN IF parsedItem.success THEN parsedItem.data ELSE finalDefaultValue

\* get, synchronous adapter: from the item getItem returned to the value
\* returned.
DecodeSync(c, item, finalDefaultValue) ==
    IF ~Truthy(item) THEN finalDefaultValue
    ELSE IF c.isJson
         THEN LET json == JSONParse(item[2])
              IN IF ~json.ok THEN finalDefaultValue
                 ELSE LET parsedItem == SafeParse(c.schema, json.v)
                      IN IF parsedItem.success THEN parsedItem.data
                         ELSE finalDefaultValue
    ELSE LET parsedItem == SafeParse(c.schema, item)
         IN IF parsedItem.success THEN parsedItem.data ELSE finalDefaultValue

\* A faulty variant of DecodeAsync: with isJson the parsed JSON is handed
\* back without asking the schema.
DecodeAsyncNoSchema(c, value, finalDefaultValue) ==
    IF ~Truthy(value) THEN finalDefaultValue
    ELSE IF c.isJson
         THEN LET json == JSONParse(value[2])
              IN IF ~json.ok THEN finalDefaultValue ELSE json.v
    ELSE LET parsedItem == SafeParse(c.schema, value)
         IN IF parsedItem.success THEN parsedItem.data ELSE finalDefaultValue

\* A faulty variant of DecodeAsync: only a missing value counts as absent,
\* an empty one is decoded.
DecodeAsyncNullOnly(c, value, finalDefaultValue) ==
    IF value = Null THEN finalDefaultValue
    ELSE IF c.isJson
         THEN LET json == JSONParse(value[2])
              IN IF ~json.ok THEN finalDefaultValue
                 ELSE LET parsedItem == SafeParse(c.schema, json.v)
                      IN IF parsedItem.success THEN parsedItem.data
                         ELSE finalDefaultValue
    ELSE LET parsedItem == SafeParse(c.schema, value)
         IN IF parsedItem.success THEN parsedItem.data ELSE finalDefaultValue

\* get, asynchronous adapter: the then-callback, from the value the promise
\* resolved with to the value the returned promise resolves with.
DecodeAsync(c, value, finalDefaultValue) ==
    IF ~Truthy(value) THEN finalDefaultValue
    ELSE IF c.isJson
         THEN LET json == JSONParse(value[2])
              IN IF ~json.ok THEN finalDefaultValue
                 ELSE LET parsedItem == SafeParse(c.schema, json.v)
                      IN IF parsedItem.success THEN parsedItem.data
                         ELSE finalDefaultValue
    ELSE LET parsedItem == SafeParse(c.schema, value)
         IN IF parsedItem.success THEN parsedItem.data ELSE finalDefaultValue

\* A faulty variant of StringValue: isJson is ignored.
StringValueNoJson(c, data) == Str(ToStringJS(data))

\* set: the text handed to setItem for a validated value.
StringValue(c, data) ==
    IF c.isJson THEN JSONStringify(data) ELSE Str(ToStringJS(data))

\* What a call of an adapter method did: r.ok = FALSE when it threw (a
\* synchronous adapter) or its promise was rejected (an asynchronous one);
\* r.item is what getItem yielded.
AdapterOk(item) == [ok |-> TRUE, item |-> item]
AdapterFailed == [ok |-> FALSE, item |-> Undefined]

\* The adapter's method aop called with (key, text) on content m: the
\* content afterwards, and what the call did.
AdapterApply(a, m, aop, key, text) ==
    IF a.faulty THEN m
    ELSE CASE aop = "getItem" -> m
           [] aop = "setItem" -> MapSet(m, key, text)
           [] aop = "removeItem" -> MapDelete(m, key)
           [] aop = "clear" -> MapClear(m)

AdapterResult(a, m, aop, key) ==
    IF a.faulty THEN AdapterFailed
    ELSE AdapterOk(IF aop = "getItem" THEN MapGet(m, key) ELSE Undefined)

\* What an accessor call came to: outcome is "returned" (an immediate
\* return), "thrown", or, for a returned promise, "pending", "fulfilled"
\* or "rejected".
Returned(v) == [outcome |-> "returned", value |-> v]
Fulfilled(v) == [outcome |-> "fulfilled", value |-> v]
Rejected == [outcome |-> "rejected", value |-> Undefined]
Thrown == [outcome |-> "thrown", value |-> Undefined]
Pending == [outcome |-> "pending", value |-> Undefined]

\* A faulty variant of GetRequest: get writes the entry's default under the
\* key instead of reading.
GetRequestWritingDefault(c) ==
    [call |-> TRUE, aop |-> "setItem", key |-> c.key,
     text |-> StringValue(c, c.defaultValue)]

\* get: the adapter call it makes.
GetRequest(c) == [call |-> TRUE, aop |-> "getItem", key |-> c.key, text |-> Undefined]

\* A faulty variant of GetReturn: a get that follows a set on the same
\* entry answers with the value that was set, without decoding the item.
GetReturnCached(c, optDefault, r) ==
    LET finalDefaultValue == FinalDefaultValue(optDefault, c.defaultValue)
    IN IF /\ last.op = "set" /\ last.calls # <<>>
          /\ storage.acc[last.lk] = c
       THEN Returned(last.arg)
       ELSE IF r.ok THEN Returned(DecodeSync(c, r.item, finalDefaultValue))
       ELSE Returned(finalDefaultValue)

\* get with a synchronous adapter: the decoded item, or the catch block.
GetReturn(c, optDefault, r) ==
    LET finalDefaultValue == FinalDefaultValue(optDefault, c.defaultValue)
    IN IF r.ok THEN Returned(DecodeSync(c, r.item, finalDefaultValue))
       ELSE Returned(finalDefaultValue)

\* A faulty variant of GetSettle: the promise chain has no catch.
GetSettleNoCatch(c, optDefault, r) ==
    LET finalDefaultValue == FinalDefaultValue(optDefault, c.defaultValue)
    IN IF r.ok THEN Fulfilled(DecodeAsync(c, r.item, finalDefaultValue))
       ELSE Rejected

\* A faulty variant of GetSettle: get hands on the adapter's promise as set
\* and remove do.
GetSettleRaw(c, optDefault, r) ==
    IF r.ok THEN Fulfilled(r.item) ELSE Rejected

\* get with an asynchronous adapter: item.then(...).catch(...)
GetSettle(c, optDefault, r) ==
    LET finalDefaultValue == FinalDefaultValue(optDefault, c.defaultValue)
    IN IF r.ok THEN Fulfilled(DecodeAsync(c, r.item, finalDefaultValue))
       ELSE Fulfilled(finalDefaultValue)

\* A faulty variant of SetRequest: the value is written whether or not the
\* schema accepts it.
SetRequestUnchecked(c, value) ==
    [call |-> TRUE, aop |-> "setItem", key |-> c.key, text |-> StringValue(c, value)]

\* A faulty variant of SetRequest: the value as it was handed to set is
\* encoded, not the schema's output.
SetRequestRawValue(c, value) ==
    LET parsedValue == SafeParse(c.schema, value)
    IN IF ~parsedValue.success
       THEN [call |-> FALSE, aop |-> "setItem", key |-> c.key, text |-> Undefined]
       ELSE [call |-> TRUE, aop |-> "setItem", key |-> c.key,
             text |-> StringValue(c, value)]

\* set: the adapter call it makes, and none when the schema rejects the
\* value.
SetRequest(c, value) ==
    LET parsedValue == SafeParse(c.schema, value)
    IN IF ~parsedValue.success
       THEN [call |-> FALSE, aop |-> "setItem", key |-> c.key, text |-> Undefined]
       ELSE [call |-> TRUE, aop |-> "setItem", key |-> c.key,
             text |-> StringValue(c, parsedValue.data)]

\* A faulty variant of SetInvalid: a promise that is already resolved is
\* returned.
SetInvalidResolved == Fulfilled(Undefined)

\* set when the schema rejects the value: return;
SetInvalid == Returned(Undefined)

\* set with a synchronous adapter: setItem's result, or the catch block.
SetReturn(r) == IF r.ok THEN Returned(Undefined) ELSE Returned(Undefined)

\* set with an asynchronous adapter: the adapter's promise is returned as
\* it is.
SetSettle(r) == IF r.ok THEN Fulfilled(Undefined) ELSE Rejected

\* A faulty variant of RemoveRequest: the wrong adapter method is called.
RemoveRequestWrongMethod(c) ==
    [call |-> TRUE, aop |-> "getItem", key |-> c.key, text |-> Undefined]

\* A faulty variant of RemoveRequest: the whole adapter is cleared.
RemoveRequestClear(c) ==
    [call |-> TRUE, aop |-> "clear", key |-> c.key, text |-> Undefined]

\* remove: the adapter call it makes.
RemoveRequest(c) ==
    [call |-> TRUE, aop |-> "removeItem", key |-> c.key, text |-> Undefined]

\* remove with a synchronous adapter: removeItem's result, or the catch
\* block.
RemoveReturn(r) == IF r.ok THEN Returned(Undefined) ELSE Returned(Undefined)

\* remove with an asynchronous adapter: the adapter's promise is returned
\* as it is.
RemoveSettle(r) == IF r.ok THEN Fulfilled(Undefined) ELSE Rejected

\* The logger calls of the accessors: the warning of set for a value the
\* schema rejects, and the error logged in a catch.
InvalidValueLog(c, value) == LogEntry("warn", InvalidValueArgs(c.key, value))
ErrorLog(op) == LogEntry("error", ErrorArgs(op))

\* get: what is run on the item that was read: nothing on an absent or
\* empty item, else JSON.parse (isJson) and, unless that throws, safeParse.
DecodeRan(c, item) ==
    IF ~Truthy(item) THEN {}
    ELSE IF c.isJson
         THEN IF JSONParse(item[2]).ok THEN {"JSON.parse", "safeParse"}
              ELSE {"JSON.parse"}
    ELSE {"safeParse"}

\* What a call of op ran on the item, the adapter having answered r.
RanOf(c, op, r) == IF op = "get" /\ r.ok THEN DecodeRan(c, r.item) ELSE {}

\* The accessor's request for a call of op with (arg, optDefault).
RequestOf(c, op, arg) ==
    CASE op = "get" -> GetRequest(c)
      [] op = "set" -> SetRequest(c, arg)
      [] op = "remove" -> RemoveRequest(c)

\* What the call returns once a synchronous adapter has answered.
ReturnOf(c, op, optDefault, r) ==
    CASE op = "get" -> GetReturn(c, optDefault, r)
      [] op = "set" -> SetReturn(r)
      [] op = "remove" -> RemoveReturn(r)

\* What the returned promise settles to once an asynchronous adapter has
\* answered.
SettleOf(c, op, optDefault, r) ==
    CASE op = "get" -> GetSettle(c, optDefault, r)
      [] op = "set" -> SetSettle(r)
      [] op = "remove" -> RemoveSettle(r)

----------------------------------------------------------------------------
(* State.                                                                  *)
(*   store    the adapter's content                                        *)
(*   adapter  the adapter the storage is built on                          *)
(*   storage  the object createTypedStorage returned, once it was called,  *)
(*            with the configuration it was given                          *)
(*   pending  the adapter calls in flight (an asynchronous adapter)        *)
(*   last     the latest call: what was called, what it returned, the      *)
(*            adapter calls it made                                        *)
(*   prev     before a get, a summary of the call that preceded it         *)
(*   environment, output                                                   *)
(*            what the logger looks at, and what it wrote to the console   *)

\* One adapter call made by an accessor: status is "pending", "ok" or
\* "failed"; result is what getItem yielded.
AdapterCall(req, status, result) ==
    [op |-> req.aop, key |-> req.key, text |-> req.text,
     status |-> status, result |-> result]

StatusOf(r) == IF r.ok THEN "ok" ELSE "failed"

\* promise: whether the call returned a promise; before: the text under
\* the accessor's storage key before the call acted on the adapter; ran:
\* what get ran on the item it read; logs: the calls of the logger made.
Call(op, lk, arg, opt, promise, res, calls, before) ==
    [op |-> op, lk |-> lk, arg |-> arg, opt |-> opt, promise |-> promise,
     outcome |-> res.outcome, value |-> res.value, calls |-> calls,
     before |-> before, ran |-> {}, logs |-> <<>>]

\* The call with what it ran on the item (JSON.parse, safeParse) and the
\* logger calls it made.
Noted(call, ran, logs) == [call EXCEPT !.ran = ran, !.logs = logs]

NoCall == Call("none", "", Undefined, Undefined, FALSE, Returned(Undefined),
               <<>>, Undefined)

\* What is kept of the call c made before a get: for set and remove the
\* key, the argument, whether the adapter call was made and succeeded, and
\* the text under the key before it; for a get with a default of its own
\* the key and that default.
Summary(c) ==
    IF c.op \in {"set", "remove"}
    THEN [op |-> c.op, lk |-> c.lk, arg |-> c.arg,
          done |-> c.calls # <<>> /\ c.calls[1].status = "ok",
          before |-> IF c.calls = <<>> THEN c.before ELSE Undefined]
    ELSE IF c.op = "get" /\ ~IsNullish(c.opt)
    THEN [op |-> "get", lk |-> c.lk, arg |-> c.opt, done |-> FALSE,
          before |-> Undefined]
    ELSE [op |-> "other", lk |-> "", arg |-> Undefined, done |-> FALSE,
          before |-> Undefined]

\* prev when a call of op follows the call c.
Before(op, c) == IF op = "get" THEN Summary(c) ELSE Summary(NoCall)

Init ==
    /\ adapter \in Adapters
    /\ store = [k \in StorageKeys |-> Undefined]
    /\ storage = [created |-> FALSE, config |-> <<>>, acc |-> <<>>]
    /\ pending = <<>>
    /\ last = NoCall
    /\ prev = Summary(NoCall)
    /\ environment = TestEnvironment
    /\ output = <<>>

\* A faulty variant of Create: the factory writes every entry's default
\* into the adapter.
CreateWritingDefaults(config) ==
    /\ ~storage.created
    /\ storage' = [created |-> TRUE, config |-> config,
                   acc |-> CreateTypedStorage(config)]
    /\ last' = Call("createTypedStorage", "", Undefined, Undefined, FALSE,
                    Returned(Undefined), <<>>, Undefined)
    /\ prev' = Before("createTypedStorage", last)
    /\ store' = [k \in StorageKeys |->
                    IF \E lk \in DOMAIN config : Bind(lk, config[lk]).key = k
                    THEN LET lk == CHOOSE x \in DOMAIN config :
                                      Bind(x, config[x]).key = k
                         IN StringValue(Bind(lk, config[lk]), config[lk].defaultValue)
                    ELSE store[k]]
    /\ UNCHANGED <<adapter, pending, environment, output>>

\* const typedStorage = createTypedStorage(adapter, config)
Create(config) ==
    /\ ~storage.created
    /\ storage' = [created |-> TRUE, config |-> config,
                   acc |-> CreateTypedStorage(config)]
    /\ last' = Call("createTypedStorage", "", Undefined, Undefined, FALSE,
                    Returned(Undefined), <<>>, Undefined)
    /\ prev' = Before("createTypedStorage", last)
    /\ UNCHANGED <<store, adapter, pending, environment, output>>

\* A call of typedStorage[lk][op]: get({ defaultValue: opt }), set(arg) or
\* remove().  Without an adapter call (set of a rejected value) it returns
\* at once.  A synchronous adapter acts and answers within the call.  An
\* asynchronous adapter takes the request and hands back a promise, which
\* the accessor returns.
Invoke(op, lk, arg, opt) ==
    /\ storage.created /\ lk \in DOMAIN storage.acc
    /\ LET c == storage.acc[lk]
           req == RequestOf(c, op, arg)
       IN /\ prev' = Before(op, last)
          /\ UNCHANGED <<adapter, storage, environment>>
          /\ IF ~req.call
             THEN /\ last' = Noted(Call(op, lk, arg, opt, FALSE, SetInvalid, <<>>,
                                        store[req.key]),
                                   {}, <<InvalidValueLog(c, arg)>>)
                  /\ output' = LoggerWarn(environment, output,
                                          InvalidValueArgs(c.key, arg))
                  /\ UNCHANGED <<store, pending>>
             ELSE IF IsAsync(adapter)
             THEN /\ pending' = Append(pending, [op |-> op, lk |-> lk, arg |-> arg,
                                                 opt |-> opt, req |-> req])
                  /\ last' = Call(op, lk, arg, opt, TRUE, Pending,
                                  <<AdapterCall(req, "pending", Undefined)>>,
                                  Undefined)
                  /\ UNCHANGED <<store, output>>
             ELSE LET r == AdapterResult(adapter, store, req.aop, req.key)
                  IN /\ store' = AdapterApply(adapter, store, req.aop, req.key, req.text)
                     /\ last' = Noted(Call(op, lk, arg, opt, FALSE,
                                           ReturnOf(c, op, opt, r),
                                           <<AdapterCall(req, StatusOf(r), r.item)>>,
                                           store[req.key]),
                                      RanOf(c, op, r),
                                      IF r.ok THEN <<>> ELSE <<ErrorLog(op)>>)
                     /\ output' = IF r.ok THEN output
                                  ELSE LoggerError(environment, output, ErrorArgs(op))
                     /\ UNCHANGED pending

\* typedStorage[lk].get({ defaultValue: optDefault })
Get(lk, optDefault) ==
    /\ storage.created /\ lk \in DOMAIN storage.acc
    /\ optDefault \in GetOptions(storage.acc[lk].schema)
    /\ Invoke("get", lk, Undefined, optDefault)

\* typedStorage[lk].set(value)
Set(lk, value) == Invoke("set", lk, value, Undefined)

\* typedStorage[lk].remove()
Remove(lk) == Invoke("remove", lk, Undefined, Undefined)

RemoveAt(seq, i) == SubSeq(seq, 1, i - 1) \o SubSeq(seq, i + 1, Len(seq))

\* The asynchronous adapter completes the i-th call in flight: it reads or
\* writes its Map and settles its promise, and the promise the accessor
\* returned settles with it.
Settle(i) ==
    /\ i \in 1..Len(pending)
    /\ LET e == pending[i]
           c == storage.acc[e.lk]
           r == AdapterResult(adapter, store, e.req.aop, e.req.key)
       IN /\ store' = AdapterApply(adapter, store, e.req.aop, e.req.key, e.req.text)
          /\ last' = Noted(Call(e.op, e.lk, e.arg, e.opt, TRUE,
                                SettleOf(c, e.op, e.opt, r),
                                <<AdapterCall(e.req, StatusOf(r), r.item)>>,
                                store[e.req.key]),
                           RanOf(c, e.op, r),
                           IF r.ok \/ e.op # "get" THEN <<>> ELSE <<ErrorLog(e.op)>>)
          /\ prev' = IF last.outcome = "pending" THEN prev ELSE Before(e.op, last)
          /\ pending' = RemoveAt(pending, i)
          /\ output' = IF r.ok \/ e.op # "get" THEN output
                       ELSE LoggerError(environment, output, ErrorArgs(e.op))
          /\ UNCHANGED <<adapter, storage, environment>>

\* The program, or another user of the same adapter, calls the adapter
\* directly.
Direct(aop, key, text) ==
    /\ ~adapter.faulty
    /\ store' = AdapterApply(adapter, store, aop, key, text)
    /\ last' = Call("adapter." \o aop, "", text, Undefined, IsAsync(adapter),
                    IF IsAsync(adapter) THEN Fulfilled(Undefined)
                    ELSE Returned(Undefined),
                    <<>>, Undefined)
    /\ prev' = Before("adapter", last)
    /\ UNCHANGED <<adapter, storage, pending, environment, output>>

AdapterSetItem(key, text) == Direct("setItem", key, Str(text))
AdapterRemoveItem(key) == Direct("removeItem", key, Undefined)
AdapterClear == Direct("clear", "", Undefined)

LogicalKeys == {"user", "token"}

\* The keys written to directly.
DirectKeys == {"user", "user-data"}

\* A caller that awaits every call before making the next one.
Awaited == pending = <<>>

Next ==
    \/ \E config \in Configs : Awaited /\ Create(config)
    \/ \E lk \in LogicalKeys : \E s \in Schemas : \E optDefault \in GetOptions(s) :
          Awaited /\ Get(lk, optDefault)
    \/ \E lk \in LogicalKeys : \E value \in SetValues : Awaited /\ Set(lk, value)
    \/ \E lk \in LogicalKeys : Awaited /\ Remove(lk)
    \/ \E i \in 1..Len(pending) : Settle(i)
    \/ \E key \in DirectKeys : \E text \in RawTexts : Awaited /\ AdapterSetItem(key, text)
    \/ \E key \in DirectKeys : Awaited /\ AdapterRemoveItem(key)
    \/ Awaited /\ AdapterClear

Spec == Init /\ [][Next]_vars

----------------------------------------------------------------------------
(* Vocabulary of the properties.                                           *)

\* The latest call is a completed call of the accessor op.
Completed(op) == last.op = op /\ last.outcome # "pending"

\* The configuration entry and the bound accessor of the latest call.
LastEntry == storage.config[last.lk]
LastAcc == storage.acc[last.lk]

\* The adapter call the latest call made went through.
AdapterWentWell == last.calls # <<>> /\ last.calls[1].status = "ok"
AdapterWentWrong == last.calls # <<>> /\ last.calls[1].status = "failed"

\* The schema accepts v.
Accepts(schema, v) == SafeParse(schema, v).success

\* The call raised nothing: it returned, or its promise was fulfilled.
NothingRaised == last.outcome \in {"returned", "fulfilled"}

\* The effective default of the latest get: the default given with the
\* call unless that is null or undefined, the configured default otherwise.
EffectiveDefault ==
    IF last.opt # Undefined /\ last.opt # Null THEN last.opt
    ELSE LastEntry.defaultValue

\* The storage key of a logical key: the entry's key when it gives one, the
\* logical key itself otherwise.
ResolvedKey(lk) ==
    IF "key" \in DOMAIN storage.config[lk] THEN storage.config[lk].key ELSE lk

\* The entry stores JSON.
EntryIsJson(entry) == "isJson" \in DOMAIN entry /\ entry.isJson

\* The latest call is a completed get() that followed a call of op on the
\* same logical key, with nothing in between.
GetAfter(op) == Completed("get") /\ prev.op = op /\ prev.lk = last.lk

----------------------------------------------------------------------------
(* C1: set(v) of a value the schema accepts, followed by get() on the same *)
(* key, returns a value deep-equal to v, with isJson true and with plain   *)
(* text.  As stated, for every accepted v.                                 *)
C1_RoundTripAny ==
    (/\ GetAfter("set") /\ prev.done /\ AdapterWentWell
     /\ last.opt = Undefined
     /\ Accepts(LastEntry.schema, prev.arg))
    => DeepEqual(last.value, prev.arg)

\* v survives JSON.stringify and JSON.parse unchanged.
JsonRepresentable(v) ==
    LET text == JSONStringify(v)
    IN /\ text # Undefined
       /\ JSONParse(text[2]).ok
       /\ DeepEqual(JSONParse(text[2]).v, v)

\* C1, amended: set(v) followed by get() returns a value deep-equal to v
\* for every accepted v that the schema returns unchanged and that is, with
\* isJson true, representable in JSON, and with plain text, a non-empty
\* string.
C1_RoundTrip ==
    (/\ GetAfter("set") /\ prev.done /\ AdapterWentWell
     /\ last.opt = Undefined
     /\ Accepts(LastEntry.schema, prev.arg)
     /\ DeepEqual(SafeParse(LastEntry.schema, prev.arg).data, prev.arg)
     /\ IF EntryIsJson(LastEntry) THEN JsonRepresentable(prev.arg)
        ELSE TypeOf(prev.arg) = "string" /\ prev.arg # Str(<<>>))
    => DeepEqual(last.value, prev.arg)

\* A get() that returned the user stored by the set(v) before it.
C1_Witness ==
    /\ GetAfter("set") /\ prev.done /\ AdapterWentWell
    /\ last.opt = Undefined
    /\ prev.arg = John /\ last.value = John
    /\ EntryIsJson(LastEntry)

----------------------------------------------------------------------------
(* C2: set(x) of a value the schema rejects calls no adapter method,       *)
(* raises nothing and leaves the store unchanged; a get() that follows     *)
(* finds what was stored before, and returns the default when there was    *)
(* nothing.                                                                *)

\* The step completes a call of the accessor op.
Completes(op) == last' # last /\ last'.op = op /\ last'.outcome # "pending"

C2_NoCall ==
    (Completed("set") /\ ~Accepts(LastEntry.schema, last.arg))
    => last.calls = <<>> /\ NothingRaised

C2_GetAfter ==
    (/\ GetAfter("set") /\ ~Accepts(LastEntry.schema, prev.arg)
     /\ AdapterWentWell)
    => /\ last.before = prev.before
       /\ last.calls[1].result = (IF IsNullish(prev.before) THEN Null ELSE prev.before)
       /\ IsNullish(prev.before) => last.value = EffectiveDefault

C2_StoreUnchanged ==
    (Completes("set") /\ ~Accepts(storage.config[last'.lk].schema, last'.arg))
    => store' = store

C2_RejectedSet ==
    /\ [](C2_NoCall /\ C2_GetAfter)
    /\ [][C2_StoreUnchanged]_vars

\* A get() after a rejected set that returned the user stored before it.
C2_Witness ==
    /\ GetAfter("set") /\ ~Accepts(LastEntry.schema, prev.arg)
    /\ AdapterWentWell
    /\ prev.arg = BadUser
    /\ prev.before = JSONStringify(John)
    /\ last.value = John

----------------------------------------------------------------------------
(* C3: with nothing stored under the key, get() returns the configured     *)
(* default and get({defaultValue: d}) returns d, for every d of the        *)
(* schema's type.                                                          *)
C3_DefaultWhenAbsent ==
    (/\ Completed("get") /\ AdapterWentWell
     /\ IsNullish(last.before)
     /\ last.opt = Undefined \/ Accepts(LastEntry.schema, last.opt))
    => last.value = (IF last.opt = Undefined THEN LastEntry.defaultValue
                     ELSE last.opt)

(* C3, amended: with nothing stored under the key, get() returns the       *)
(* configured default and get({defaultValue: d}) returns d for every d     *)
(* that is neither null nor undefined.                                     *)
C3_DefaultWhenAbsentGiven ==
    (/\ Completed("get") /\ AdapterWentWell
     /\ IsNullish(last.before)
     /\ last.opt # Null)
    => last.value = (IF last.opt = Undefined THEN LastEntry.defaultValue
                     ELSE last.opt)

\* A get({defaultValue: d}) on an absent key whose configured default is not d.
C3_Witness ==
    /\ Completed("get") /\ AdapterWentWell
    /\ IsNullish(last.before)
    /\ last.opt \notin {Undefined, Null}
    /\ last.opt # LastEntry.defaultValue
    /\ last.value = last.opt

----------------------------------------------------------------------------
(* C4: when the stored text fails JSON parsing (isJson) or the schema      *)
(* rejects it, get() returns the effective default and raises nothing.     *)

\* The text is no JSON (isJson), or the schema rejects what it holds.
InvalidFor(entry, item) ==
    IF EntryIsJson(entry)
    THEN \/ ~JSONParse(item[2]).ok
         \/ ~Accepts(entry.schema, JSONParse(item[2]).v)
    ELSE ~Accepts(entry.schema, item)

C4_InvalidStored ==
    (/\ Completed("get") /\ AdapterWentWell
     /\ TypeOf(last.calls[1].result) = "string"
     /\ InvalidFor(LastEntry, last.calls[1].result))
    => NothingRaised /\ last.value = EffectiveDefault

\* A get() that found a JSON object of the wrong shape.
C4_Witness ==
    /\ Completed("get") /\ AdapterWentWell
    /\ EntryIsJson(LastEntry) /\ LastEntry.schema = ObjectSchema
    /\ last.calls[1].result = Str(TextBadShape)
    /\ last.value = LastEntry.defaultValue

----------------------------------------------------------------------------
(* C5: after remove() nothing is stored under the storage key, and a get() *)
(* that follows returns the default.                                       *)
C5_AfterRemove ==
    /\ (Completed("remove") /\ AdapterWentWell)
          => IsNullish(store[ResolvedKey(last.lk)])
    /\ (GetAfter("remove") /\ prev.done /\ AdapterWentWell)
          => NothingRaised /\ last.value = EffectiveDefault

\* A remove() of a stored text, the storage key now empty.
C5_Witness ==
    /\ Completed("remove") /\ AdapterWentWell
    /\ ~IsNullish(last.before)
    /\ IsNullish(store[ResolvedKey(last.lk)])

----------------------------------------------------------------------------
(* C6: every call of get, set and remove returns a promise with an         *)
(* asynchronous adapter, and an immediate value with a synchronous one.    *)
C6_ModeFollowsAdapter ==
    last.op \in {"get", "set", "remove"} => last.promise = IsAsync(adapter)

----------------------------------------------------------------------------
(* C7: the accessors of an entry read, write and remove under the entry's  *)
(* key when it gives one and under the logical key otherwise, and touch    *)
(* no other key of the adapter.                                            *)
C7_CallsUseKey ==
    last.op \in {"get", "set", "remove"}
    => /\ \A i \in 1..Len(last.calls) : last.calls[i].key = ResolvedKey(last.lk)
       /\ (Completed("get") /\ AdapterWentWell)
             => last.calls[1].result =
                  (IF IsNullish(store[ResolvedKey(last.lk)]) THEN Null
                   ELSE store[ResolvedKey(last.lk)])
       /\ (Completed("set") /\ AdapterWentWell)
             => store[ResolvedKey(last.lk)] = last.calls[1].text
       /\ (Completed("remove") /\ AdapterWentWell)
             => IsNullish(store[ResolvedKey(last.lk)])

C7_OtherKeysKept ==
    (Completes("get") \/ Completes("set") \/ Completes("remove"))
    => \A k \in StorageKeys \ {ResolvedKey(last'.lk)} : store'[k] = store[k]

C7_KeyResolution ==
    /\ []C7_CallsUseKey
    /\ [][C7_OtherKeysKept]_vars

\* A set on the entry "user" with the key "user-data": the text is under
\* "user-data" and nothing is under "user".
C7_Witness ==
    /\ Completed("set") /\ AdapterWentWell
    /\ last.lk = "user" /\ ResolvedKey("user") = "user-data"
    /\ store["user-data"] = JSONStringify(John)
    /\ IsNullish(store["user"])

----------------------------------------------------------------------------
(* C8: when the adapter's getItem throws or its promise is rejected, get() *)
(* raises nothing and yields the effective default.                        *)
C8_GetItemFails ==
    (Completed("get") /\ AdapterWentWrong)
    => NothingRaised /\ last.value = EffectiveDefault

\* A get({defaultValue: d}) whose getItem promise was rejected.
C8_Witness ==
    /\ Completed("get") /\ AdapterWentWrong
    /\ last.outcome = "fulfilled"
    /\ last.opt = John /\ last.value = John

----------------------------------------------------------------------------
(* C9: when the adapter's setItem throws or its promise is rejected, set() *)
(* neither throws nor returns a promise that is rejected.                  *)
C9_SetItemFails ==
    (Completed("set") /\ AdapterWentWrong) => NothingRaised

----------------------------------------------------------------------------
(* C10: when the adapter's removeItem throws or its promise is rejected,   *)
(* remove() neither throws nor returns a promise that is rejected.         *)
C10_RemoveItemFails ==
    (Completed("remove") /\ AdapterWentWrong) => NothingRaised

----------------------------------------------------------------------------
(* C11: after set(v) of a value the schema accepts, the text handed to     *)
(* setItem and stored under the resolved storage key is the encoding of    *)
(* the schema's output: its JSON serialisation with isJson, its plain      *)
(* textual form otherwise, and nothing else.                               *)
C11_StoredText ==
    (Completed("set") /\ AdapterWentWell /\ Accepts(LastEntry.schema, last.arg))
    => LET data == SafeParse(LastEntry.schema, last.arg).data
           text == IF EntryIsJson(LastEntry) THEN JSONStringify(data)
                   ELSE Str(ToStringJS(data))
       IN /\ last.calls[1].op = "setItem"
          /\ last.calls[1].key = ResolvedKey(last.lk)
          /\ last.calls[1].text = text
          /\ store[ResolvedKey(last.lk)] = text

\* A set of a user with a key the schema strips: the stored JSON is that of
\* the schema's output.
C11_Witness ==
    /\ Completed("set") /\ AdapterWentWell
    /\ last.arg = JohnExtra
    /\ store[ResolvedKey(last.lk)] = JSONStringify(John)

----------------------------------------------------------------------------
(* C12: createTypedStorage returns a mapping whose keys are exactly the    *)
(* logical keys of config, each accessor triple bound to its own entry's   *)
(* storage key, schema, default and isJson flag; an empty config gives an  *)
(* empty mapping, without error.                                           *)
C12_OneTriplePerEntry ==
    storage.created
    => /\ DOMAIN storage.acc = DOMAIN storage.config
       /\ \A lk \in DOMAIN storage.config :
             /\ storage.acc[lk].key = ResolvedKey(lk)
             /\ storage.acc[lk].schema = storage.config[lk].schema
             /\ storage.acc[lk].defaultValue = storage.config[lk].defaultValue
             /\ storage.acc[lk].isJson = EntryIsJson(storage.config[lk])
       /\ (last.op = "createTypedStorage" => last.outcome = "returned")

\* The storage of the two-entry configuration, whose entries differ in
\* schema, default and isJson flag.
C12_Witness ==
    /\ storage.created
    /\ DOMAIN storage.acc = {"user", "token"}
    /\ storage.acc["user"].isJson /\ ~storage.acc["token"].isJson
    /\ storage.acc["user"].schema # storage.acc["token"].schema

\* The storage of the configuration without entries.
C12_WitnessEmpty ==
    /\ last.op = "createTypedStorage" /\ last.outcome = "returned"
    /\ storage.created /\ DOMAIN storage.acc = {}

----------------------------------------------------------------------------
(* C13: createTypedStorage performs no I/O: the call makes no adapter call *)
(* and leaves the adapter's content unchanged, for every config.           *)
C13_CreateStep ==
    (last'.op = "createTypedStorage" /\ last' # last)
    => /\ store' = store
       /\ pending' = pending
       /\ last'.calls = <<>>

C13_NoIO == [][C13_CreateStep]_vars

\* A storage made over an adapter that already holds a text under the
\* entry's key.
C13_Witness ==
    /\ last.op = "createTypedStorage"
    /\ "user" \in DOMAIN storage.acc /\ storage.acc["user"].key = "user"
    /\ store["user"] = Str(TextA)

----------------------------------------------------------------------------
(* C14: no value is cached: the result of every get() is determined by     *)
(* what the adapter holds under the storage key at that call and by the    *)
(* entry's configuration, so that a change made through the adapter        *)
(* directly is observed by the next get().                                 *)

\* What a get of the entry yields for the item held under its key: the
\* schema's output for the item (read as JSON with isJson) when there is
\* one, the default dflt otherwise.
ValueOfItem(entry, item, dflt) ==
    IF IsNullish(item) \/ item = Str(<<>>) THEN dflt
    ELSE LET json == JSONParse(item[2])
             readable == ~EntryIsJson(entry) \/ json.ok
             input == IF EntryIsJson(entry) THEN json.v ELSE item
         IN IF readable /\ Accepts(entry.schema, input)
            THEN SafeParse(entry.schema, input).data
            ELSE dflt

C14_NoCache ==
    (Completed("get") /\ AdapterWentWell)
    => LET held == store[ResolvedKey(last.lk)]
       IN /\ last.calls[1].result = (IF IsNullish(held) THEN Null ELSE held)
          /\ last.value = ValueOfItem(LastEntry, held, EffectiveDefault)

\* A get that returns a text no set of this storage can have written: it
\* was put under the key through the adapter.
C14_Witness ==
    /\ Completed("get") /\ AdapterWentWell
    /\ LastEntry.schema = StringSchema /\ ~EntryIsJson(LastEntry)
    /\ store[ResolvedKey(last.lk)] = Str(TextThirty)
    /\ last.value = Str(TextThirty)

----------------------------------------------------------------------------
(* C15: when an error occurs while get() reads an item (the adapter fails, *)
(* or the text is no JSON with isJson), the default value is set: after    *)
(* the call the default is stored under the key, and it is returned.  An   *)
(* adapter that fails cannot store it: there only the result is looked at. *)

\* The latest get met an error: getItem failed, or JSON.parse threw.
C15_ErrorWhileReading ==
    /\ Completed("get")
    /\ \/ AdapterWentWrong
       \/ /\ AdapterWentWell /\ EntryIsJson(LastEntry)
          /\ Truthy(last.calls[1].result)
          /\ IF Truthy(last.calls[1].result)
             THEN ~JSONParse(last.calls[1].result[2]).ok ELSE FALSE

C15_DefaultSetOnError ==
    C15_ErrorWhileReading
    => /\ last.value = EffectiveDefault
       /\ AdapterWentWell
          => store[ResolvedKey(last.lk)] =
                (IF EntryIsJson(LastEntry) THEN JSONStringify(EffectiveDefault)
                 ELSE Str(ToStringJS(EffectiveDefault)))

----------------------------------------------------------------------------
(* C19: if the configured default, and the default given with the call if  *)
(* there is one, satisfy the schema, every value get() returns or resolves *)
(* to satisfies the schema: it is the output of a successful schema parse  *)
(* of the stored content, or the effective default.                        *)

\* v is the schema's output for the item, or for the JSON it holds.
C19_ParsedFrom(entry, item, v) ==
    /\ Truthy(item)
    /\ LET json == IF Truthy(item) THEN JSONParse(item[2]) ELSE ParseFail
           input == IF EntryIsJson(entry) THEN json.v ELSE item
       IN /\ EntryIsJson(entry) => json.ok
          /\ Accepts(entry.schema, input)
          /\ v = SafeParse(entry.schema, input).data

C19_ValueSatisfiesSchema ==
    (/\ Completed("get")
     /\ Accepts(LastEntry.schema, LastEntry.defaultValue)
     /\ IsNullish(last.opt) \/ Accepts(LastEntry.schema, last.opt))
    => /\ NothingRaised
       /\ Accepts(LastEntry.schema, last.value)
       /\ \/ last.value = EffectiveDefault
          \/ /\ AdapterWentWell
             /\ C19_ParsedFrom(LastEntry, last.calls[1].result, last.value)

\* A pending get that resolved to the schema's output for the stored JSON,
\* which is not the default.
C19_Witness ==
    /\ Completed("get") /\ AdapterWentWell
    /\ last.outcome = "fulfilled"
    /\ EntryIsJson(LastEntry)
    /\ last.value = John /\ last.value # EffectiveDefault

----------------------------------------------------------------------------
(* C20: with isJson false, get() hands the raw stored string unchanged to  *)
(* the schema: it returns the schema's output when the schema accepts that *)
(* string and the effective default otherwise, without converting the text *)
(* to the schema's type; with isJson true the schema is applied to the     *)
(* parsed JSON.  As stated, for every stored string.                       *)

\* The item the latest get read.
C20_Item == last.calls[1].result

\* The value the claim gives for the stored string item.
C20_Expected(item) ==
    LET json == JSONParse(item[2])
    IN IF EntryIsJson(LastEntry)
       THEN IF json.ok /\ Accepts(LastEntry.schema, json.v)
            THEN SafeParse(LastEntry.schema, json.v).data
            ELSE EffectiveDefault
       ELSE IF Accepts(LastEntry.schema, item)
            THEN SafeParse(LastEntry.schema, item).data
            ELSE EffectiveDefault

C20_RawToSchema ==
    (/\ Completed("get") /\ AdapterWentWell
     /\ TypeOf(C20_Item) = "string")
    => last.value = C20_Expected(C20_Item)

(* C20, amended: the same for every stored string that is not empty; the   *)
(* empty string counts as no stored item and yields the effective default. *)
C20_RawToSchemaNonEmpty ==
    (/\ Completed("get") /\ AdapterWentWell
     /\ TypeOf(C20_Item) = "string")
    => last.value = (IF C20_Item = Str(<<>>) THEN EffectiveDefault
                     ELSE C20_Expected(C20_Item))

\* The text 30 under a key with a number schema and plain text: the schema
\* rejects the string and get() returns the default, not the number 30.
C20_Witness ==
    /\ Completed("get") /\ AdapterWentWell
    /\ LastEntry.schema = NumberSchema /\ ~EntryIsJson(LastEntry)
    /\ C20_Item = Str(TextThirty)
    /\ last.value = EffectiveDefault /\ last.value # Num(30)

----------------------------------------------------------------------------
(* The logger on its own: calls of logger.warn and logger.error in an      *)
(* environment that changes between the calls.                             *)

\* The longest console output followed.
MaxOutput == 2

\* The arguments handed to the logger.
LoggerArgs == {<<Str(TextA)>>, <<Str(TextA), John>>}

InitLogger ==
    /\ adapter = MemoryStorageAdapter
    /\ store = [k \in StorageKeys |-> Undefined]
    /\ storage = [created |-> FALSE, config |-> <<>>, acc |-> <<>>]
    /\ pending = <<>>
    /\ last = NoCall
    /\ prev = Summary(NoCall)
    /\ environment \in Environments
    /\ output = <<>>

\* logger.warn(...args)
Warn(args) ==
    /\ Len(output) < MaxOutput
    /\ output' = LoggerWarn(environment, output, args)
    /\ last' = Call("logger.warn", "", Undefined, Undefined, FALSE,
                    Returned(Undefined), <<>>, Undefined)
    /\ UNCHANGED <<store, adapter, storage, pending, prev, environment>>

\* logger.error(...args)
Error(args) ==
    /\ Len(output) < MaxOutput
    /\ output' = LoggerError(environment, output, args)
    /\ last' = Call("logger.error", "", Undefined, Undefined, FALSE,
                    Returned(Undefined), <<>>, Undefined)
    /\ UNCHANGED <<store, adapter, storage, pending, prev, environment>>

\* NODE_ENV is set anew, or the console is replaced, between two calls.
SetEnvironment(env) ==
    /\ env # environment
    /\ environment' = env
    /\ UNCHANGED <<store, adapter, storage, pending, last, prev, output>>

NextLogger ==
    \/ \E args \in LoggerArgs : Warn(args)
    \/ \E args \in LoggerArgs : Error(args)
    \/ \E env \in Environments : SetEnvironment(env)

SpecLogger == InitLogger /\ [][NextLogger]_vars

----------------------------------------------------------------------------
(* C16: logger.warn and logger.error write to the console only when        *)
(* NODE_ENV is 'development', looked up on every call; without a console   *)
(* or without the console method they return without raising and without   *)
(* output.                                                                 *)

\* The step is a call of logger.warn or logger.error.
C16_LoggerCall(method) ==
    /\ last'.op = "logger." \o method
    /\ last' # last \/ output' # output

C16_Step(method) ==
    C16_LoggerCall(method)
    => /\ last'.outcome = "returned"
       /\ output' # output => environment.NODE_ENV = "development"
       /\ (~environment.console.defined \/ method \notin environment.console.methods)
          => output' = output
       /\ (/\ environment.NODE_ENV = "development"
           /\ environment.console.defined
           /\ method \in environment.console.methods)
          => /\ Len(output') = Len(output) + 1
             /\ SubSeq(output', 1, Len(output)) = output
             /\ output'[Len(output')].method = method

C16_GatedByNodeEnv == [][C16_Step("warn") /\ C16_Step("error")]_vars

\* A call of logger.error that wrote nothing, NODE_ENV being 'production',
\* after a call of logger.warn that wrote while it was 'development'.
C16_Witness ==
    /\ last.op = "logger.error"
    /\ environment.NODE_ENV = "production"
    /\ Len(output) = 1 /\ output[1].method = "warn"

----------------------------------------------------------------------------
(* The localStorage API: getLocalStorageItem and defineGetterAndSetter,    *)
(* which act on the global localStorage.  In SpecLocal store is the        *)
(* content of localStorage, adapter says which of its methods throw, and   *)
(* storage holds the options the getter/setter pair was defined with,      *)
(* under the name of the pair.                                             *)

\* localStorage: getItem and setItem each work or throw (storage access
\* denied, no localStorage at all, quota exceeded).
LocalStorages == [getItemThrows : BOOLEAN, setItemThrows : BOOLEAN]

\* localStorage.setItem(key, value): the value is stored as a string.
LocalStorageSetItem(m, key, value) == MapSet(m, key, Str(ToStringJS(value)))

LocalGetItemRequest(key) ==
    [call |-> TRUE, aop |-> "getItem", key |-> key, text |-> Undefined]
LocalSetItemRequest(key, value) ==
    [call |-> TRUE, aop |-> "setItem", key |-> key, text |-> Str(ToStringJS(value))]

\* What a call came to: the result, localStorage afterwards, and the
\* localStorage calls made.
LocalOutcome(res, m, calls) == [res |-> res, store |-> m, calls |-> calls]

\* getLocalStorageItem(key, { schema, defaultValue, isJson = false })
GetLocalStorageItem(ls, m, key, options) ==
    LET isJson == "isJson" \in DOMAIN options /\ options.isJson
        defaultValue == options.defaultValue
        written == IF isJson THEN JSONStringify(defaultValue) ELSE defaultValue
        setReq == LocalSetItemRequest(key, written)
        \* the catch block, after the calls made so far
        Caught(calls) ==
            IF ls.setItemThrows
            THEN LocalOutcome(Thrown, m,
                              Append(calls, AdapterCall(setReq, "failed", Undefined)))
            ELSE LocalOutcome(Returned(defaultValue),
                              LocalStorageSetItem(m, key, written),
                              Append(calls, AdapterCall(setReq, "ok", Undefined)))
        getReq == LocalGetItemRequest(key)
        item == MapGet(m, key)
        read == <<AdapterCall(getReq, "ok", item)>>
    IN IF ls.getItemThrows
       THEN Caught(<<AdapterCall(getReq, "failed", Undefined)>>)
       ELSE IF ~Truthy(item) THEN LocalOutcome(Returned(defaultValue), m, read)
       ELSE IF isJson
            THEN LET json == JSONParse(item[2])
                 IN IF ~json.ok THEN Caught(read)
                    ELSE LET parsedItem == SafeParse(options.schema, json.v)
                         IN IF ~parsedItem.success
                            THEN LocalOutcome(Returned(defaultValue), m, read)
                            ELSE LocalOutcome(Returned(parsedItem.data), m, read)
       ELSE LET parsedItem == SafeParse(options.schema, item)
            IN IF ~parsedItem.success
               THEN LocalOutcome(Returned(defaultValue), m, read)
               ELSE LocalOutcome(Returned(parsedItem.data), m, read)

\* defineGetterAndSetter(...).get(options):
\* getLocalStorageItem(key, { schema, defaultValue, ...options })
DefinedGet(ls, m, options, callDefault) ==
    GetLocalStorageItem(ls, m, options.key,
        [schema |-> options.schema,
         defaultValue |-> IF callDefault = Undefined THEN options.defaultValue
                          ELSE callDefault])

\* defineGetterAndSetter(...).set(value)
DefinedSet(ls, m, options, value) ==
    LET isJson == "isJson" \in DOMAIN options /\ options.isJson
        parsedValue == SafeParse(options.schema, value)
        written == IF isJson THEN JSONStringify(parsedValue.data)
                   ELSE parsedValue.data
        setReq == LocalSetItemRequest(options.key, written)
    IN IF ~parsedValue.success THEN LocalOutcome(Returned(Undefined), m, <<>>)
       ELSE IF ls.setItemThrows
       THEN LocalOutcome(Thrown, m, <<AdapterCall(setReq, "failed", Undefined)>>)
       ELSE LocalOutcome(Returned(Undefined),
                         LocalStorageSetItem(m, options.key, written),
                         <<AdapterCall(setReq, "ok", Undefined)>>)

\* The options a pair is defined with: { key, schema, defaultValue, isJson? }.
LocalOptions ==
    {WithKey(Entry(s, j), k) : s \in Schemas, j \in BOOLEAN, k \in DirectKeys}

\* The name the pair is kept under, as in
\* const typedLocalStorage = { user: defineGetterAndSetter({ ... }) }.
PairName == "user"

InitLocal ==
    /\ adapter \in LocalStorages
    /\ store = [k \in StorageKeys |-> Undefined]
    /\ storage = [created |-> FALSE, config |-> <<>>, acc |-> <<>>]
    /\ pending = <<>>
    /\ last = NoCall
    /\ prev = Summary(NoCall)
    /\ environment = TestEnvironment
    /\ output = <<>>

\* const pair = defineGetterAndSetter(options)
Define(options) ==
    /\ ~storage.created
    /\ storage' = [created |-> TRUE, config |-> [k \in {PairName} |-> options],
                   acc |-> <<>>]
    /\ last' = Call("defineGetterAndSetter", "", Undefined, Undefined, FALSE,
                    Returned(Undefined), <<>>, Undefined)
    /\ prev' = Before("defineGetterAndSetter", last)
    /\ UNCHANGED <<store, adapter, pending, environment, output>>

\* A call on localStorage through the API came to o.
LocalCall(op, arg, opt, o, logged) ==
    /\ store' = o.store
    /\ last' = Call(op, PairName, arg, opt, FALSE, o.res, o.calls,
                    store[storage.config[PairName].key])
    /\ prev' = Before(op, last)
    /\ output' = logged
    /\ UNCHANGED <<adapter, storage, pending, environment>>

\* The catch block of getLocalStorageItem ran: it called setItem.
LocalCaught(o) == \E i \in 1..Len(o.calls) : o.calls[i].op = "setItem"

LocalErrorArgs == <<Literal("Error getting local storage item:"), ErrorValue>>

\* pair.get({ defaultValue: callDefault }), or pair.get()
DefinedGetCall(callDefault) ==
    /\ storage.created
    /\ LET options == storage.config[PairName]
           o == DefinedGet(adapter, store, options, callDefault)
       IN /\ callDefault \in {Undefined, OverrideOf(options.schema)}
          /\ LocalCall("get", Undefined, callDefault, o,
                       IF LocalCaught(o)
                       THEN LoggerError(environment, output, LocalErrorArgs)
                       ELSE output)

\* pair.set(value)
DefinedSetCall(value) ==
    /\ storage.created
    /\ LET options == storage.config[PairName]
           o == DefinedSet(adapter, store, options, value)
       IN LocalCall("set", value, Undefined, o,
                    IF ~SafeParse(options.schema, value).success
                    THEN LoggerWarn(environment, output,
                                    InvalidValueArgs(options.key, value))
                    ELSE output)

\* getLocalStorageItem(key, { schema, defaultValue, isJson }) with the
\* options of the pair.
GetLocalStorageItemCall ==
    /\ storage.created
    /\ LET options == storage.config[PairName]
           o == GetLocalStorageItem(adapter, store, options.key, options)
       IN LocalCall("getLocalStorageItem", Undefined, Undefined, o,
                    IF LocalCaught(o)
                    THEN LoggerError(environment, output, LocalErrorArgs)
                    ELSE output)

\* Another part of the page writes to localStorage, or removes an item.
LocalStorageWrite(key, text) ==
    /\ ~adapter.setItemThrows
    /\ store' = MapSet(store, key, Str(text))
    /\ last' = Call("localStorage.setItem", "", Str(text), Undefined, FALSE,
                    Returned(Undefined), <<>>, Undefined)
    /\ prev' = Before("localStorage", last)
    /\ UNCHANGED <<adapter, storage, pending, environment, output>>

LocalStorageRemove(key) ==
    /\ ~adapter.setItemThrows
    /\ store' = MapDelete(store, key)
    /\ last' = Call("localStorage.removeItem", "", Undefined, Undefined, FALSE,
                    Returned(Undefined), <<>>, Undefined)
    /\ prev' = Before("localStorage", last)
    /\ UNCHANGED <<adapter, storage, pending, environment, output>>

NextLocal ==
    \/ \E options \in LocalOptions : Define(options)
    \/ \E s \in Schemas : \E d \in {Undefined, OverrideOf(s)} : DefinedGetCall(d)
    \/ \E value \in SetValues : DefinedSetCall(value)
    \/ GetLocalStorageItemCall
    \/ \E key \in DirectKeys : \E text \in RawTexts : LocalStorageWrite(key, text)
    \/ \E key \in DirectKeys : LocalStorageRemove(key)

SpecLocal == InitLocal /\ [][NextLocal]_vars

----------------------------------------------------------------------------
(* C17: for the pair made by defineGetterAndSetter, set(v) of a value the  *)
(* schema accepts followed by get() returns v, with isJson true and with   *)
(* isJson false.  Stated for the values that make the round trip through   *)
(* createTypedStorage (C1): the schema returns v unchanged, and v survives *)
(* JSON.stringify and JSON.parse (isJson) or is a non-empty string.        *)
C17_LocalRoundTrip ==
    (/\ GetAfter("set") /\ prev.done /\ AdapterWentWell
     /\ last.opt = Undefined
     /\ Accepts(LastEntry.schema, prev.arg)
     /\ DeepEqual(SafeParse(LastEntry.schema, prev.arg).data, prev.arg)
     /\ IF EntryIsJson(LastEntry) THEN JsonRepresentable(prev.arg)
        ELSE TypeOf(prev.arg) = "string" /\ prev.arg # Str(<<>>))
    => /\ NothingRaised
       /\ DeepEqual(last.value, prev.arg)

----------------------------------------------------------------------------
(* C18: getLocalStorageItem returns the default when the item does not     *)
(* exist, when parsing fails and when the schema rejects the item; when an *)
(* error occurs (localStorage access or JSON.parse raises) it also stores  *)
(* the default under the key, JSON-encoded with isJson, and returns the    *)
(* default without raising.                                                *)

\* The latest call of getLocalStorageItem met an error.
C18_ErrorOccurred ==
    \/ last.calls[1].status = "failed"
    \/ /\ EntryIsJson(LastEntry) /\ Truthy(last.calls[1].result)
       /\ IF Truthy(last.calls[1].result)
          THEN ~JSONParse(last.calls[1].result[2]).ok ELSE FALSE

\* The item read is absent, or what it holds is rejected by the schema.
C18_NoValidItem ==
    /\ last.calls[1].status = "ok"
    /\ LET item == last.calls[1].result
       IN \/ ~Truthy(item)
          \/ /\ ~EntryIsJson(LastEntry)
             /\ ~Accepts(LastEntry.schema, item)
          \/ /\ EntryIsJson(LastEntry)
             /\ IF Truthy(item)
                THEN LET json == JSONParse(item[2])
                     IN json.ok /\ ~Accepts(LastEntry.schema, json.v)
                ELSE FALSE

C18_LocalGetItem ==
    Completed("getLocalStorageItem")
    => /\ C18_NoValidItem
          => last.outcome = "returned" /\ last.value = LastEntry.defaultValue
       /\ C18_ErrorOccurred
          => /\ last.outcome = "returned" /\ last.value = LastEntry.defaultValue
             /\ store[ResolvedKey(last.lk)] =
                   (IF EntryIsJson(LastEntry)
                    THEN JSONStringify(LastEntry.defaultValue)
                    ELSE Str(ToStringJS(LastEntry.defaultValue)))

----------------------------------------------------------------------------
(* C21: an item that is absent (null) or the empty string counts as no     *)
(* stored item: get() yields the effective default and runs neither        *)
(* JSON.parse nor the schema on it, with a synchronous and with an         *)
(* asynchronous adapter.                                                   *)
C21_AbsentOrEmpty ==
    (/\ Completed("get") /\ AdapterWentWell
     /\ last.calls[1].result \in {Null, Str(<<>>)})
    => /\ NothingRaised
       /\ last.promise = IsAsync(adapter)
       /\ last.value = EffectiveDefault
       /\ last.ran = {}

\* A pending get that read the empty string under a string schema, which
\* accepts it, and resolved to the default.
C21_Witness ==
    /\ Completed("get") /\ AdapterWentWell
    /\ last.outcome = "fulfilled"
    /\ last.calls[1].result = Str(<<>>)
    /\ LastEntry.schema = StringSchema /\ ~EntryIsJson(LastEntry)
    /\ last.value = Str(TextEn)

\* A get that read nothing under the key and returned at once.
C21_WitnessAbsent ==
    /\ Completed("get") /\ AdapterWentWell
    /\ last.outcome = "returned"
    /\ last.calls[1].result = Null
    /\ last.value = EffectiveDefault

----------------------------------------------------------------------------
----------------------------------------------------------------------------
(* C23: a defaultValue passed to get() applies to that call only: the call *)
(* changes neither the configuration nor the store, and a later get()      *)
(* without a default of its own falls back to the configured default.      *)

\* A get with a default of its own completes.
C23_GetStep ==
    (Completes("get") /\ ~IsNullish(last'.opt))
    => /\ storage' = storage
       /\ store' = store

\* The get() that follows a get({defaultValue: d}) on the same key.
C23_LaterGet ==
    (GetAfter("get") /\ last.opt = Undefined)
    => last.value = IF AdapterWentWell
                    THEN ValueOfItem(LastEntry, store[ResolvedKey(last.lk)],
                                     LastEntry.defaultValue)
                    ELSE LastEntry.defaultValue

----------------------------------------------------------------------------
(* C26: the synchronous and the asynchronous path of get() compute the     *)
(* same function: for every raw value, schema, isJson flag and default,    *)
(* the value a pending get resolves to is the value get returns with a     *)
(* synchronous adapter that holds the same raw value.                      *)

\* What the adapter answered to the latest get.
C26_Answer ==
    IF AdapterWentWell THEN AdapterOk(last.calls[1].result) ELSE AdapterFailed

\* The result of the other path for the same answer.
C26_OtherPath ==
    IF last.promise THEN GetReturn(LastAcc, last.opt, C26_Answer)
    ELSE GetSettle(LastAcc, last.opt, C26_Answer)

C26_SamePaths ==
    Completed("get")
    => /\ last.value = C26_OtherPath.value
       /\ last.outcome = IF last.promise THEN "fulfilled" ELSE "returned"
       /\ C26_OtherPath.outcome = IF last.promise THEN "returned" ELSE "fulfilled"

\* A pending get that read a text that is no JSON and resolved to the
\* default.
C26_Witness ==
    /\ Completed("get") /\ AdapterWentWell
    /\ last.outcome = "fulfilled"
    /\ EntryIsJson(LastEntry)
    /\ last.calls[1].result = Str(TextA)
    /\ last.value = EffectiveDefault

----------------------------------------------------------------------------
(* C27: get() never modifies the store: whatever it meets (no item, an     *)
(* invalid one, a JSON parse failure, an adapter failure) the only adapter *)
(* operation it invokes is getItem, and the adapter holds afterwards what  *)
(* it held before.                                                         *)
C27_GetStep ==
    Completes("get")
    => /\ store' = store
       /\ \A i \in 1..Len(last'.calls) : last'.calls[i].op = "getItem"

----------------------------------------------------------------------------
(* C28: each accessor call makes at most one adapter call, on its own      *)
(* storage key: get one getItem, set one setItem for an accepted value and *)
(* none for a rejected one, remove one removeItem; a failed call is not    *)
(* retried, clear is never called, and what is stored under every other    *)
(* key is left as it was.                                                  *)

\* The adapter method an accessor calls.
C28_MethodOf(op) ==
    CASE op = "get" -> "getItem"
      [] op = "set" -> "setItem"
      [] op = "remove" -> "removeItem"

C28_CallsOfLatest ==
    last.op \in {"get", "set", "remove"}
    => /\ Len(last.calls) =
             (IF last.op = "set" /\ ~Accepts(LastEntry.schema, last.arg)
              THEN 0 ELSE 1)
       /\ \A i \in 1..Len(last.calls) :
             /\ last.calls[i].op = C28_MethodOf(last.op)
             /\ last.calls[i].key = ResolvedKey(last.lk)
       /\ Len(pending) <= 1

C28_AccessorStep ==
    (last' # last /\ last'.op \in {"get", "set", "remove"})
    => /\ \A k \in StorageKeys \ {ResolvedKey(last'.lk)} : store'[k] = store[k]
       /\ last'.op = "get" => store' = store
       /\ Len(pending') <= Len(pending) + 1

----------------------------------------------------------------------------
(* C30: the effective default of a get() call is the override given with   *)
(* the call when that is neither null nor undefined, and the configured    *)
(* default otherwise: get({defaultValue: null}) and                        *)
(* get({defaultValue: undefined}) behave like get(), also for a schema     *)
(* that accepts null.                                                      *)

\* The default the call falls back on, as the claim states it.
C30_Default ==
    IF last.opt \in {Null, Undefined} THEN LastEntry.defaultValue ELSE last.opt

C30_EffectiveDefault ==
    Completed("get")
    => /\ NothingRaised
       /\ last.value = IF AdapterWentWell
                       THEN ValueOfItem(LastEntry, last.calls[1].result,
                                        C30_Default)
                       ELSE C30_Default

\* get({defaultValue: null}) on an absent key of a nullable schema returned
\* the configured default, not null.
C30_Witness ==
    /\ Completed("get") /\ AdapterWentWell
    /\ last.opt = Null
    /\ LastEntry.schema = NullableSchema
    /\ IsNullish(last.calls[1].result)
    /\ last.value = LastEntry.defaultValue
    /\ last.value # Null

\* get({defaultValue: d}) fell back on d after the adapter failed.
C30_WitnessOverride ==
    /\ Completed("get") /\ AdapterWentWrong
    /\ ~IsNullish(last.opt)
    /\ last.value = last.opt
    /\ last.value # LastEntry.defaultValue

----------------------------------------------------------------------------
(* Calls that are not awaited.  The accessors of one entry over an         *)
(* asynchronous adapter are called while earlier calls are in flight.  The *)
(* adapter completes its calls in an order of its own choosing (each       *)
(* method awaits a delay before it touches its Map); the promise of set    *)
(* and remove is the adapter's, and get's promise settles when the         *)
(* reaction attached by .then(...).catch(...) has run.                     *)
(*   pending  the calls in flight: for a get, until its reaction has run   *)
(*   prev     every call made so far, in call order, with the moments it   *)
(*            was made (at), the adapter completed it (done) and its       *)
(*            result settled (end), and the text under its key when it was *)
(*            made (stored)                                                *)
(*   last     the call the latest step made or advanced                    *)

\* The number of accessor calls of a run.
MaxCalls == 3

AsyncAdapters == {CustomAsyncStorageAdapter, FaultyAdapter}

\* One entry, a JSON-encoded user, as in the tests of the asynchronous
\* adapter.
ConcConfigs == {[k \in {"user"} |-> Entry(ObjectSchema, TRUE)]}

\* Two users the schema accepts, and one it rejects.
ConcValues == {John, EmptyUser, BadUser}

\* The moments of a run, counted in calls made, adapter calls completed and
\* reactions run.
Tick ==
    1 + Len(prev)
      + Cardinality({i \in DOMAIN prev : prev[i].done # 0})
      + Cardinality({i \in DOMAIN prev : prev[i].call.op = "get" /\ prev[i].end # 0})

InFlight(id, op, lk, arg, opt, req) ==
    [id |-> id, op |-> op, lk |-> lk, arg |-> arg, opt |-> opt, req |-> req,
     answered |-> FALSE, r |-> AdapterFailed, res |-> Pending, ran |-> {}]

InitConc ==
    /\ adapter \in AsyncAdapters
    /\ store = [k \in StorageKeys |-> Undefined]
    /\ \E config \in ConcConfigs :
          storage = [created |-> TRUE, config |-> config,
                     acc |-> CreateTypedStorage(config)]
    /\ pending = <<>>
    /\ last = Call("createTypedStorage", "", Undefined, Undefined, FALSE,
                   Returned(Undefined), <<>>, Undefined)
    /\ prev = <<>>
    /\ environment = TestEnvironment
    /\ output = <<>>

\* A call of typedStorage[lk][op] that does not wait for the calls before
\* it: the adapter's method is called at once and its promise handed on.
ConcInvoke(op, lk, arg, opt) ==
    /\ Len(prev) < MaxCalls
    /\ lk \in DOMAIN storage.acc
    /\ LET c == storage.acc[lk]
           req == RequestOf(c, op, arg)
           id == Len(prev) + 1
           call == IF ~req.call
                   THEN Noted(Call(op, lk, arg, opt, FALSE, SetInvalid, <<>>,
                                   store[req.key]),
                              {}, <<InvalidValueLog(c, arg)>>)
                   ELSE Call(op, lk, arg, opt, TRUE, Pending,
                             <<AdapterCall(req, "pending", Undefined)>>,
                             Undefined)
       IN /\ last' = call
          /\ prev' = Append(prev, [call |-> call, at |-> Tick, done |-> 0,
                                   end |-> 0, stored |-> store[req.key]])
          /\ pending' = IF req.call
                        THEN Append(pending, InFlight(id, op, lk, arg, opt, req))
                        ELSE pending
          /\ output' = IF req.call THEN output
                       ELSE LoggerWarn(environment, output,
                                       InvalidValueArgs(c.key, arg))
          /\ UNCHANGED <<store, adapter, storage, environment>>

ConcGet(lk, optDefault) ==
    /\ lk \in DOMAIN storage.acc
    /\ optDefault \in {Undefined, OverrideOf(storage.acc[lk].schema)}
    /\ ConcInvoke("get", lk, Undefined, optDefault)

ConcSet(lk, value) == ConcInvoke("set", lk, value, Undefined)

ConcRemove(lk) == ConcInvoke("remove", lk, Undefined, Undefined)

\* A faulty variant of AdapterSettles: setItem leaves a key alone that
\* holds a text already (the first writer wins).
AdapterSettlesKeepFirst(id) ==
    \E i \in 1..Len(pending) :
       /\ pending[i].id = id /\ ~pending[i].answered
       /\ LET e == pending[i]
              c == storage.acc[e.lk]
              r == AdapterResult(adapter, store, e.req.aop, e.req.key)
              acall == <<AdapterCall(e.req, StatusOf(r), r.item)>>
              call == IF e.op = "get"
                      THEN [prev[id].call EXCEPT !.calls = acall,
                                                 !.before = store[e.req.key]]
                      ELSE Call(e.op, e.lk, e.arg, e.opt, TRUE,
                                SettleOf(c, e.op, e.opt, r), acall,
                                store[e.req.key])
          IN /\ store' = IF e.op = "set" /\ ~IsNullish(store[e.req.key])
                         THEN store
                         ELSE AdapterApply(adapter, store, e.req.aop, e.req.key,
                                           e.req.text)
             /\ last' = call
             /\ prev' = [prev EXCEPT ![id].call = call, ![id].done = Tick,
                                     ![id].end = IF e.op = "get" THEN 0 ELSE Tick]
             /\ pending' = IF e.op = "get"
                           THEN [pending EXCEPT
                                    ![i].answered = TRUE, ![i].r = r,
                                    ![i].res = SettleOf(c, e.op, e.opt, r),
                                    ![i].ran = RanOf(c, e.op, r)]
                           ELSE RemoveAt(pending, i)
             /\ UNCHANGED <<adapter, storage, environment, output>>

\* The adapter completes the call id: its delay is over, it reads or
\* writes its Map and settles its promise.  That promise is what set and
\* remove returned; for a get the reaction is now due, and what it will
\* yield (res, ran) is fixed by the adapter's answer.
AdapterSettles(id) ==
    \E i \in 1..Len(pending) :
       /\ pending[i].id = id /\ ~pending[i].answered
       /\ LET e == pending[i]
              c == storage.acc[e.lk]
              r == AdapterResult(adapter, store, e.req.aop, e.req.key)
              acall == <<AdapterCall(e.req, StatusOf(r), r.item)>>
              call == IF e.op = "get"
                      THEN [prev[id].call EXCEPT !.calls = acall,
                                                 !.before = store[e.req.key]]
                      ELSE Call(e.op, e.lk, e.arg, e.opt, TRUE,
                                SettleOf(c, e.op, e.opt, r), acall,
                                store[e.req.key])
          IN /\ store' = AdapterApply(adapter, store, e.req.aop, e.req.key,
                                      e.req.text)
             /\ last' = call
             /\ prev' = [prev EXCEPT ![id].call = call, ![id].done = Tick,
                                     ![id].end = IF e.op = "get" THEN 0 ELSE Tick]
             /\ pending' = IF e.op = "get"
                           THEN [pending EXCEPT
                                    ![i].answered = TRUE, ![i].r = r,
                                    ![i].res = SettleOf(c, e.op, e.opt, r),
                                    ![i].ran = RanOf(c, e.op, r)]
                           ELSE RemoveAt(pending, i)
             /\ UNCHANGED <<adapter, storage, environment, output>>

\* The reaction of the get id runs on the adapter's answer: the then
\* callback on a fulfilled promise, the catch callback on a rejected one.
Reaction(id) ==
    \E i \in 1..Len(pending) :
       /\ pending[i].id = id /\ pending[i].answered
       /\ LET e == pending[i]
              call == Noted(Call(e.op, e.lk, e.arg, e.opt, TRUE, e.res,
                                 prev[id].call.calls, prev[id].call.before),
                            e.ran,
                            IF e.r.ok THEN <<>> ELSE <<ErrorLog(e.op)>>)
          IN /\ last' = call
             /\ prev' = [prev EXCEPT ![id].call = call, ![id].end = Tick]
             /\ pending' = RemoveAt(pending, i)
             /\ output' = IF e.r.ok THEN output
                          ELSE LoggerError(environment, output, ErrorArgs(e.op))
             /\ UNCHANGED <<store, adapter, storage, environment>>

\* A faulty variant of GetContinues: nothing is attached for a rejected
\* promise of the adapter, and the result stays unsettled.
GetContinuesOnFulfilled(id) ==
    /\ \E i \in 1..Len(pending) : pending[i].id = id /\ pending[i].r.ok
    /\ Reaction(id)

\* The promise get returned settles: the host runs the reaction once the
\* adapter's promise has settled.
GetContinues(id) == Reaction(id)

NextConc ==
    \/ \E lk \in LogicalKeys : \E s \in Schemas :
          \E optDefault \in {Undefined, OverrideOf(s)} : ConcGet(lk, optDefault)
    \/ \E lk \in LogicalKeys : \E value \in ConcValues : ConcSet(lk, value)
    \/ \E lk \in LogicalKeys : ConcRemove(lk)
    \/ \E id \in 1..MaxCalls : AdapterSettles(id)
    \/ \E id \in 1..MaxCalls : GetContinues(id)

\* The host runs every reaction that is due; nothing makes the adapter
\* complete a call.
SpecConc ==
    /\ InitConc
    /\ [][NextConc]_vars
    /\ \A id \in 1..MaxCalls : WF_vars(GetContinues(id))

----------------------------------------------------------------------------
(* Vocabulary of the properties of calls that are not awaited.             *)

\* The calls made so far, by their place in call order.
Made == DOMAIN prev

\* The storage key of the call id.
KeyOf(id) == ResolvedKey(prev[id].call.lk)

\* The calls of set and remove that reached the adapter.
IsMutator(id) ==
    /\ prev[id].call.op \in {"set", "remove"}
    /\ prev[id].call.calls # <<>>

\* What the mutator id leaves under its key.
Written(id) ==
    IF prev[id].call.op = "set" THEN prev[id].call.calls[1].text ELSE Undefined

\* The adapter has the call id in flight at the moment t.
InFlightAt(id, t) ==
    /\ prev[id].call.calls # <<>>
    /\ prev[id].at < t
    /\ prev[id].done = 0 \/ prev[id].done > t

----------------------------------------------------------------------------
(* C24: two set calls with accepted values v1 and v2 on the same key of an *)
(* asynchronous adapter, the second made without awaiting the first: the   *)
(* core issues both setItem calls at once, in call order, and adds no      *)
(* mutual exclusion, versioning or last-writer-wins rule; once both are    *)
(* complete the stored text is the encoding of v1 or of v2 as the          *)
(* adapter's completion order decides, so the later call need not win.     *)

\* Every accepted set has its setItem call with the adapter from the moment
\* it is made, and the adapter holds its calls in call order.
C24_IssuedAtOnce ==
    /\ \A id \in Made :
          (prev[id].call.op = "set"
           /\ Accepts(storage.config[prev[id].call.lk].schema, prev[id].call.arg))
          => /\ Len(prev[id].call.calls) = 1
             /\ prev[id].call.calls[1].op = "setItem"
             /\ prev[id].call.calls[1].text =
                   StringValue(storage.acc[prev[id].call.lk],
                               SafeParse(storage.config[prev[id].call.lk].schema,
                                         prev[id].call.arg).data)
             /\ prev[id].done = 0
                => \E i \in 1..Len(pending) : pending[i].id = id
    /\ \A i, j \in 1..Len(pending) : i < j => pending[i].id < pending[j].id

\* Under each key lies what the mutator the adapter completed last left.
C24_CompletionOrderDecides ==
    \A id \in Made :
       (/\ ~adapter.faulty
        /\ IsMutator(id) /\ prev[id].done # 0
        /\ \A o \in Made : (IsMutator(o) /\ KeyOf(o) = KeyOf(id))
                           => prev[o].done <= prev[id].done)
       => store[KeyOf(id)] = Written(id)

C24_SetsRace == C24_IssuedAtOnce /\ C24_CompletionOrderDecides

\* set(v1) and set(v2) were in flight together and the adapter completed
\* the second before the first: the text of v1, the earlier call, is stored.
C24_Witness ==
    \E a, b \in Made :
       /\ a < b
       /\ prev[a].call.op = "set" /\ prev[b].call.op = "set"
       /\ IsMutator(a) /\ IsMutator(b)
       /\ prev[b].done # 0 /\ prev[a].done > prev[b].done
       /\ Written(a) # Written(b)
       /\ store[KeyOf(a)] = Written(a)
       /\ pending = <<>>

\* The same two calls completed in call order: the later call won.
C24_WitnessLaterWins ==
    \E a, b \in Made :
       /\ a < b
       /\ prev[a].call.op = "set" /\ prev[b].call.op = "set"
       /\ IsMutator(a) /\ IsMutator(b)
       /\ prev[a].done > prev[b].at /\ prev[b].done > prev[a].done
       /\ Written(a) # Written(b)
       /\ store[KeyOf(a)] = Written(b)
       /\ pending = <<>>

----------------------------------------------------------------------------
(* C25: with an asynchronous adapter, a get() made while a set(v) or a     *)
(* remove() on the same key is pending resolves to the decoding of the raw *)
(* value the adapter delivered for that read: the value stored before the  *)
(* pending operation, the value it writes, or the effective default; it    *)
(* resolves to no other value and it never rejects.                        *)

\* The get id was made while a set or remove on its key was pending.
C25_MadeWhilePending(id) ==
    /\ prev[id].call.op = "get"
    /\ \E m \in Made : /\ IsMutator(m) /\ KeyOf(m) = KeyOf(id)
                       /\ InFlightAt(m, prev[id].at)

\* The default the get id falls back on.
C25_Default(id) ==
    IF IsNullish(prev[id].call.opt)
    THEN storage.config[prev[id].call.lk].defaultValue
    ELSE prev[id].call.opt

\* The texts the adapter may deliver to the get id: what lay under the key
\* when the get was made, and what a set or remove in flight next to the
\* read leaves there.
C25_Texts(id) ==
    {prev[id].stored}
    \cup {Written(m) : m \in {o \in Made : /\ IsMutator(o) /\ KeyOf(o) = KeyOf(id)
                                          /\ prev[o].at < prev[id].done
                                          /\ \/ prev[o].done = 0
                                             \/ prev[o].done > prev[id].at}}

C25_GetWhilePending ==
    \A id \in Made :
       C25_MadeWhilePending(id)
       => /\ prev[id].call.outcome \in {"pending", "fulfilled"}
          /\ prev[id].call.promise
          /\ prev[id].call.outcome = "fulfilled"
             => LET entry == storage.config[prev[id].call.lk]
                    got == prev[id].call.calls[1]
                IN IF got.status = "ok"
                   THEN /\ prev[id].call.value =
                              ValueOfItem(entry, got.result, C25_Default(id))
                        /\ \E t \in C25_Texts(id) :
                              MapGet([k \in {"k"} |-> t], "k") = got.result
                   ELSE prev[id].call.value = C25_Default(id)

\* A get made while set(v) was pending, over a stored value: it resolved to
\* the value stored before.
C25_Witness ==
    \E id \in Made :
       /\ C25_MadeWhilePending(id)
       /\ prev[id].call.outcome = "fulfilled"
       /\ ~IsNullish(prev[id].stored)
       /\ prev[id].call.calls[1].result = prev[id].stored
       /\ \E m \in Made : /\ prev[m].call.op = "set" /\ IsMutator(m)
                          /\ InFlightAt(m, prev[id].at)
                          /\ Written(m) # prev[id].stored
                          /\ prev[m].done > prev[id].done
       /\ prev[id].call.value = John

\* The same get resolved to the value the pending set writes.
C25_WitnessWritten ==
    \E id \in Made :
       /\ C25_MadeWhilePending(id)
       /\ prev[id].call.outcome = "fulfilled"
       /\ \E m \in Made : /\ prev[m].call.op = "set" /\ IsMutator(m)
                          /\ InFlightAt(m, prev[id].at)
                          /\ Written(m) # prev[id].stored
                          /\ prev[id].call.calls[1].result = Written(m)
                          /\ prev[id].call.value = prev[m].call.arg
                          /\ prev[id].call.value = John

\* A get made while remove() was pending resolved to the default; so did a
\* get whose getItem the adapter rejected.
C25_WitnessDefault ==
    \E id \in Made :
       /\ C25_MadeWhilePending(id)
       /\ prev[id].call.outcome = "fulfilled"
       /\ ~IsNullish(prev[id].stored)
       /\ prev[id].call.calls[1].result = Null
       /\ prev[id].call.value = C25_Default(id)

C25_WitnessRejected ==
    \E id \in Made :
       /\ C25_MadeWhilePending(id)
       /\ prev[id].call.outcome = "fulfilled"
       /\ prev[id].call.calls[1].status = "failed"

----------------------------------------------------------------------------
(* C29: with an asynchronous adapter, the pending result of get() settles  *)
(* when and only when the adapter's getItem result settles: once the       *)
(* adapter's result is fulfilled or rejected, get()'s result is eventually *)
(* fulfilled (never rejected); the core imposes no timeout, so get()'s     *)
(* result stays pending while the adapter's result does.                   *)

\* The adapter has settled the getItem promise of the get id.
C29_AdapterSettled(id) ==
    /\ id \in Made /\ prev[id].call.op = "get"
    /\ prev[id].call.calls[1].status \in {"ok", "failed"}

C29_Fulfilled(id) ==
    /\ id \in Made /\ prev[id].call.op = "get"
    /\ prev[id].call.outcome = "fulfilled"

\* get's result is pending or fulfilled, and pending as long as the
\* adapter's result is.
C29_OnlyWhen ==
    \A id \in Made :
       prev[id].call.op = "get"
       => /\ prev[id].call.promise
          /\ prev[id].call.outcome \in {"pending", "fulfilled"}
          /\ prev[id].call.calls[1].status = "pending"
             => prev[id].call.outcome = "pending"

\* No step settles get's result but the reaction to the adapter's settled
\* promise.
C29_Step ==
    \A id \in Made :
       (prev[id].call.op = "get" /\ prev[id].call.outcome = "pending"
        /\ prev'[id].call.outcome # "pending")
       => /\ C29_AdapterSettled(id)
          /\ prev'[id].call.outcome = "fulfilled"

C29_SettlesWithAdapter ==
    /\ []C29_OnlyWhen
    /\ [][C29_Step]_vars
    /\ \A id \in 1..MaxCalls : C29_AdapterSettled(id) ~> C29_Fulfilled(id)

\* The adapter rejected getItem, and get's result was fulfilled with the
\* default.
C29_Witness ==
    \E id \in Made :
       /\ C29_Fulfilled(id)
       /\ prev[id].call.calls[1].status = "failed"
       /\ prev[id].call.value = storage.config[prev[id].call.lk].defaultValue

\* A get whose getItem the adapter has not settled is pending still, after
\* every call made after it has settled.
C29_WitnessPending ==
    /\ Len(prev) = MaxCalls
    /\ prev[1].call.op = "get"
    /\ prev[1].call.calls[1].status = "pending"
    /\ prev[1].call.outcome = "pending"
    /\ \A id \in Made \ {1} : prev[id].call.outcome # "pending"

====
